---- MODULE Spec2Model ----
(***************************************************************************)
(* datype: the cycle-safe deep traversal trio (cloneDeep, isEqual,         *)
(* deepMerge) over a heap of JavaScript values.                            *)
(*                                                                         *)
(* A JavaScript value is either a primitive or a reference to a heap cell. *)
(* The heap is a sequence of cells; a reference is an index into it, so    *)
(* `new X()` / a literal is Append and object identity is index equality.  *)
(***************************************************************************)
EXTENDS Integers, Sequences, FiniteSets, TLC

VARIABLES heap, pre, op, args, ret

\* The state of one throttled or debounced function: which of the two was
\* created (fn), its parameters, the clock and the pending timers of the
\* runtime, the variables of the closure, and the history of the calls made to
\* it (called) and of the invocations of func (invoked).  lastResult is the
\* closure's variable result.
VARIABLES fn, wait, leading, trailing, maxWait, now, timers,
          timeoutId, maxTimeoutId, lastArgs, lastCallTime, lastInvokeTime,
          lastResult, called, invoked

values == <<heap, pre, op, args, ret>>

timing == <<fn, wait, leading, trailing, maxWait, now, timers,
            timeoutId, maxTimeoutId, lastArgs, lastCallTime, lastInvokeTime,
            lastResult, called, invoked>>

\* The state of one wrapper made by once: the variables of its closure
\* (onceCalled is the closure's variable called, onceResult its variable
\* result), the calls in progress (stack), the arguments fn was run with
\* (runs) and the calls that have completed, with their outcome (log).
VARIABLES onceCalled, onceResult, hasError, error, stack, runs, log

memo == <<onceCalled, onceResult, hasError, error, stack, runs, log>>

vars == <<values, timing, memo>>

(***************************************************************************)
(* Bounds of the explored inputs.                                          *)
(***************************************************************************)
\* total size (cells and slots) of the values the caller builds before a call
MaxSize == 6
\* total size of a deepMerge call: the cells and slots the caller builds, plus
\* one for each argument that is a primitive or repeats an earlier argument
MaxMergeSize == 5
\* number of arguments after the target in a deepMerge call
MaxRest == 2
\* length of the array literals, and number of sources, of the array merges
MaxElems == 2
MaxArraySources == 2
\* nesting of the object literals, and number of sources, of the depth merges
MaxNest == 2
MaxChainSources == 2
\* number of self-referential sources merged into a self-referential target
MaxRepeats == 3
\* the largest wait of a throttled or debounced function, in milliseconds
MaxWait == 2
\* the largest maxWait of a debounced function, in milliseconds
MaxMaxWait == 3
\* the clock stops at MaxTime milliseconds
MaxTime == 5
\* the number of calls made to a throttled or debounced function
MaxCalls == 3
\* the number of calls made to a wrapper of once, and of distinct arguments
MaxOnceCalls == 4
MaxArg == 2

(***************************************************************************)
(* Values                                                                  *)
(***************************************************************************)
Undefined == [t |-> "undefined"]
Null == [t |-> "null"]
Num(n) == [t |-> "number", p |-> n]
Str(s) == [t |-> "string", p |-> s]
Ref(a) == [t |-> "ref", a |-> a]

\* the numbers that the comparisons of the code tell apart
PosZero == Num("+0")
NegZero == Num("-0")
NaN == Num("NaN")
One == Num("1")

IsRef(v) == v.t = "ref"

\* typeof v
TypeOf(h, v) ==
  IF IsRef(v)
    THEN (IF h[v.a].kind = "function" THEN "function" ELSE "object")
    ELSE IF v.t = "null" THEN "object" ELSE v.t

IsZero(v) == v = PosZero \/ v = NegZero

\* a === b: IEEE equality on numbers, identity elsewhere.
StrictEq(a, b) ==
  IF a.t = "number" /\ b.t = "number"
    THEN (a # NaN /\ b # NaN /\ (a = b \/ (IsZero(a) /\ IsZero(b))))
    ELSE a = b

\* SameValueZero, the key equality of Set and Map
SameValueZero(a, b) == a = b \/ (IsZero(a) /\ IsZero(b))

\* mutants of ObjectIs: a === b, and SameValueZero
ObjectIsStrict(a, b) == StrictEq(a, b)
ObjectIsZero(a, b) == SameValueZero(a, b)

\* Object.is(a, b): SameValue. NaN is one value, +0 and -0 are two.
ObjectIs(a, b) == a = b

\* Set.prototype.add / Map.prototype.set store -0 as +0
NormKey(v) == IF v = NegZero THEN PosZero ELSE v

\* instanceof / Array.isArray on a value
IsKind(h, v, k) == IsRef(v) /\ h[v.a].kind = k

(***************************************************************************)
(* Cells                                                                   *)
(***************************************************************************)
\* the property names in use, in the order the loops visit them
Keys == <<"a", "b", "arrayMergeStrategy", "maxDepth">>

\* {} ; proto is "Object" (Object.prototype), "null" (Object.create(null)) or
\* "class" (an instance of a class)
NewObjectOf(proto) == [kind |-> "object", proto |-> proto, props |-> <<>>]
NewObject == NewObjectOf("Object")
NewArray == [kind |-> "array", elems |-> <<>>]
NewSet == [kind |-> "set", elems |-> <<>>]
NewMap == [kind |-> "map", entries |-> <<>>]
NewDate(t) == [kind |-> "date", time |-> t]
NewRegExp(s, f) == [kind |-> "regexp", source |-> s, flags |-> f]
NewFunction == [kind |-> "function"]

\* obj[key] = v on a plain object cell
PutProp(c, key, v) ==
  [c EXCEPT !.props = [k \in (DOMAIN c.props) \cup {key} |->
                         IF k = key THEN v ELSE c.props[k]]]

\* set.add(v)
SetAdd(c, v) ==
  IF \E i \in 1..Len(c.elems) : SameValueZero(c.elems[i], v)
    THEN c
    ELSE [c EXCEPT !.elems = Append(@, NormKey(v))]

\* map.set(k, v)
MapSet(c, k, v) ==
  IF \E i \in 1..Len(c.entries) : SameValueZero(c.entries[i][1], k)
    THEN [c EXCEPT !.entries =
            [i \in 1..Len(c.entries) |->
               IF SameValueZero(c.entries[i][1], k)
                 THEN <<c.entries[i][1], v>> ELSE c.entries[i]]]
    ELSE [c EXCEPT !.entries = Append(@, <<NormKey(k), v>>)]

\* Object.keys(obj) / own enumerable string keys, as a set; the exotic
\* objects of the catalog (Date, RegExp, Set, Map, function) have none.
OwnKeys(c) == IF c.kind = "object" THEN DOMAIN c.props ELSE {}

(***************************************************************************)
(* The JavaScript call stack.  A call at frame d deeper than StackLimit    *)
(* does not return (RangeError); every result carries ok (FALSE when a     *)
(* frame overflowed) and top, the deepest frame the call reached.          *)
(***************************************************************************)
StackLimit == 2 * MaxSize + 3

Max(x, y) == IF x >= y THEN x ELSE y

\* seen.set(a, v) on a WeakMap / Map keyed by object identity
Bind(seen, a, v) ==
  [x \in (DOMAIN seen) \cup {a} |-> IF x = a THEN v ELSE seen[x]]

\* seen.delete(a)
Unbind(seen, a) == [x \in (DOMAIN seen) \ {a} |-> seen[x]]

(***************************************************************************)
(* cloneDeep(value, seen = new WeakMap())                                  *)
(***************************************************************************)
CloneRet(h, seen, v, d) ==
  [h |-> h, seen |-> seen, val |-> v, ok |-> TRUE, top |-> d]

\* mutant of CloneSeenHas: the cycle check is missing
CloneSeenHasNever(seen, value) == FALSE

\* seen.has(value)
CloneSeenHas(seen, value) == value.a \in DOMAIN seen

\* mutant of CloneSeenSet: the clone is not recorded
CloneSeenSetNone(seen, a, v) == seen

\* seen.set(value, cloned)
CloneSeenSet(seen, a, v) == Bind(seen, a, v)

\* mutant of CloneDate: the Date is returned as it is
CloneDateShared(h, seen, value, d) == CloneRet(h, seen, value, d)

\* return new Date(value.getTime())
CloneDate(h, seen, value, d) ==
  CloneRet(Append(h, NewDate(h[value.a].time)), seen, Ref(Len(h) + 1), d)

\* mutant of CloneRegExp: new RegExp(value.source)
CloneRegExpNoFlags(h, seen, value, d) ==
  CloneRet(Append(h, NewRegExp(h[value.a].source, "")), seen, Ref(Len(h) + 1), d)

\* return new RegExp(value.source, value.flags)
CloneRegExp(h, seen, value, d) ==
  CloneRet(Append(h, NewRegExp(h[value.a].source, h[value.a].flags)), seen,
           Ref(Len(h) + 1), d)

RECURSIVE CloneDeep(_, _, _, _)
RECURSIVE CloneArrayLoop(_, _, _, _, _, _, _)
RECURSIVE CloneSetLoop(_, _, _, _, _, _, _)
RECURSIVE CloneMapLoop(_, _, _, _, _, _, _)
RECURSIVE CloneObjectLoop(_, _, _, _, _, _, _)

\* for (let i = 0; i < value.length; i++) clonedArray[i] = cloneDeep(value[i], seen)
CloneArrayLoop(h, seen, src, dst, i, d, top) ==
  IF i > Len(h[src].elems)
    THEN [h |-> h, seen |-> seen, val |-> Ref(dst), ok |-> TRUE, top |-> top]
    ELSE LET r == CloneDeep(h, seen, h[src].elems[i], d + 1) IN
         IF ~r.ok THEN r
         ELSE CloneArrayLoop([r.h EXCEPT ![dst].elems = Append(@, r.val)],
                             r.seen, src, dst, i + 1, d, Max(top, r.top))

\* for (const item of Array.from(value)) clonedSet.add(cloneDeep(item, seen))
CloneSetLoop(h, seen, items, dst, i, d, top) ==
  IF i > Len(items)
    THEN [h |-> h, seen |-> seen, val |-> Ref(dst), ok |-> TRUE, top |-> top]
    ELSE LET r == CloneDeep(h, seen, items[i], d + 1) IN
         IF ~r.ok THEN r
         ELSE CloneSetLoop([r.h EXCEPT ![dst] = SetAdd(@, r.val)],
                           r.seen, items, dst, i + 1, d, Max(top, r.top))

\* for (const [key, val] of Array.from(value))
\*   clonedMap.set(cloneDeep(key, seen), cloneDeep(val, seen))
CloneMapLoop(h, seen, items, dst, i, d, top) ==
  IF i > Len(items)
    THEN [h |-> h, seen |-> seen, val |-> Ref(dst), ok |-> TRUE, top |-> top]
    ELSE LET rk == CloneDeep(h, seen, items[i][1], d + 1) IN
         IF ~rk.ok THEN rk
         ELSE LET rv == CloneDeep(rk.h, rk.seen, items[i][2], d + 1) IN
              IF ~rv.ok THEN rv
              ELSE CloneMapLoop([rv.h EXCEPT ![dst] = MapSet(@, rk.val, rv.val)],
                                rv.seen, items, dst, i + 1, d,
                                Max(top, Max(rk.top, rv.top)))

\* for (const key in value) if (hasOwnProperty(value, key))
\*   clonedObject[key] = cloneDeep(value[key], seen)
CloneObjectLoop(h, seen, src, dst, i, d, top) ==
  IF i > Len(Keys)
    THEN [h |-> h, seen |-> seen, val |-> Ref(dst), ok |-> TRUE, top |-> top]
    ELSE IF Keys[i] \notin OwnKeys(h[src])
    THEN CloneObjectLoop(h, seen, src, dst, i + 1, d, top)
    ELSE LET r == CloneDeep(h, seen, h[src].props[Keys[i]], d + 1) IN
         IF ~r.ok THEN r
         ELSE CloneObjectLoop([r.h EXCEPT ![dst] = PutProp(@, Keys[i], r.val)],
                              r.seen, src, dst, i + 1, d, Max(top, r.top))

CloneDeep(h, seen, value, d) ==
  IF d > StackLimit
    THEN [h |-> h, seen |-> seen, val |-> Undefined, ok |-> FALSE, top |-> d]
  ELSE IF value = Null \/ value = Undefined THEN CloneRet(h, seen, value, d)
  ELSE IF TypeOf(h, value) # "object" THEN CloneRet(h, seen, value, d)
  ELSE IF CloneSeenHas(seen, value) THEN CloneRet(h, seen, seen[value.a], d)
  ELSE LET c == h[value.a]
           n == Len(h) + 1
       IN CASE c.kind = "date" -> CloneDate(h, seen, value, d)
            [] c.kind = "regexp" -> CloneRegExp(h, seen, value, d)
            [] c.kind = "array" ->
                 CloneArrayLoop(Append(h, NewArray),
                                CloneSeenSet(seen, value.a, Ref(n)),
                                value.a, n, 1, d, d)
            [] c.kind = "set" ->
                 CloneSetLoop(Append(h, NewSet),
                              CloneSeenSet(seen, value.a, Ref(n)),
                              c.elems, n, 1, d, d)
            [] c.kind = "map" ->
                 CloneMapLoop(Append(h, NewMap),
                              CloneSeenSet(seen, value.a, Ref(n)),
                              c.entries, n, 1, d, d)
            [] OTHER ->
                 CloneObjectLoop(Append(h, NewObject),
                                 CloneSeenSet(seen, value.a, Ref(n)),
                                 value.a, n, 1, d, d)

(***************************************************************************)
(* isEqual(a, b) = deepEqual(a, b, new Map())                              *)
(***************************************************************************)
EqRet(res, seen, d) == [res |-> res, seen |-> seen, ok |-> TRUE, top |-> d]

\* seen.has(a)
EqSeenHas(seen, a) == a.a \in DOMAIN seen

\* a cycle guard that accepts whatever stands on the other side
EqSeenGetAny(seen, a, b) == TRUE

\* return seen.get(a) === b
EqSeenGet(seen, a, b) == StrictEq(seen[a.a], b)

\* a == b: null and undefined equal each other
EqNullishLoose(a, b) == a \in {Null, Undefined} /\ b \in {Null, Undefined}

\* return a === b, when one of them is null or undefined
EqNullish(a, b) == StrictEq(a, b)

\* a size check that lets collections of any two sizes through
SizeDiffersNever(x, y) == FALSE

\* a.size !== b.size
SizeDiffers(x, y) == Len(x) # Len(y)

RECURSIVE DeepEqual(_, _, _, _, _)
RECURSIVE FindInSet(_, _, _, _, _, _, _)
RECURSIVE EqualSetLoop(_, _, _, _, _, _, _)
RECURSIVE FindInMap(_, _, _, _, _, _, _)
RECURSIVE EqualMapLoop(_, _, _, _, _, _, _)
RECURSIVE EqualArrayLoop(_, _, _, _, _, _, _)
RECURSIVE EqualKeysLoop(_, _, _, _, _, _, _)

\* for (const otherItem of Array.from(b))
\*   if (deepEqual(item, otherItem, seen)) { found = true; break; }
FindInSet(h, item, others, j, seen, d, top) ==
  IF j > Len(others)
    THEN [res |-> FALSE, seen |-> seen, ok |-> TRUE, top |-> top]
    ELSE LET r == DeepEqual(h, item, others[j], seen, d + 1) IN
         IF ~r.ok \/ r.res THEN [r EXCEPT !.top = Max(top, r.top)]
         ELSE FindInSet(h, item, others, j + 1, r.seen, d, Max(top, r.top))

\* for (const item of Array.from(a)) { ...; if (!found) { seen.delete(a); return false; } }
\* seen.delete(a); return true;
EqualSetLoop(h, a, b, i, seen, d, top) ==
  IF i > Len(h[a].elems)
    THEN [res |-> TRUE, seen |-> Unbind(seen, a), ok |-> TRUE, top |-> top]
    ELSE LET f == FindInSet(h, h[a].elems[i], h[b].elems, 1, seen, d, top) IN
         IF ~f.ok THEN f
         ELSE IF ~f.res THEN [f EXCEPT !.seen = Unbind(f.seen, a)]
         ELSE EqualSetLoop(h, a, b, i + 1, f.seen, d, f.top)

\* for (const [otherKey, otherValue] of Array.from(b))
\*   if (deepEqual(key, otherKey, seen) && deepEqual(value, otherValue, seen)) ...
FindInMap(h, entry, others, j, seen, d, top) ==
  IF j > Len(others)
    THEN [res |-> FALSE, seen |-> seen, ok |-> TRUE, top |-> top]
    ELSE LET rk == DeepEqual(h, entry[1], others[j][1], seen, d + 1) IN
         IF ~rk.ok THEN rk
         ELSE IF ~rk.res
           THEN FindInMap(h, entry, others, j + 1, rk.seen, d, Max(top, rk.top))
         ELSE LET rv == DeepEqual(h, entry[2], others[j][2], rk.seen, d + 1) IN
              IF ~rv.ok \/ rv.res
                THEN [rv EXCEPT !.top = Max(top, Max(rk.top, rv.top))]
              ELSE FindInMap(h, entry, others, j + 1, rv.seen, d,
                             Max(top, Max(rk.top, rv.top)))

EqualMapLoop(h, a, b, i, seen, d, top) ==
  IF i > Len(h[a].entries)
    THEN [res |-> TRUE, seen |-> Unbind(seen, a), ok |-> TRUE, top |-> top]
    ELSE LET f == FindInMap(h, h[a].entries[i], h[b].entries, 1, seen, d, top) IN
         IF ~f.ok THEN f
         ELSE IF ~f.res THEN [f EXCEPT !.seen = Unbind(f.seen, a)]
         ELSE EqualMapLoop(h, a, b, i + 1, f.seen, d, f.top)

\* for (let i = 0; i < a.length; i++)
\*   if (!deepEqual(a[i], b[i], seen)) { seen.delete(a); return false; }
EqualArrayLoop(h, a, b, i, seen, d, top) ==
  IF i > Len(h[a].elems)
    THEN [res |-> TRUE, seen |-> Unbind(seen, a), ok |-> TRUE, top |-> top]
    ELSE LET r == DeepEqual(h, h[a].elems[i], h[b].elems[i], seen, d + 1) IN
         IF ~r.ok THEN r
         ELSE IF ~r.res
           THEN [r EXCEPT !.seen = Unbind(r.seen, a), !.top = Max(top, r.top)]
         ELSE EqualArrayLoop(h, a, b, i + 1, r.seen, d, Max(top, r.top))

\* for (const key of keysA) {
\*   if (!hasOwnProperty(objB, key)) { seen.delete(a); return false; }
\*   if (!deepEqual(objA[key], objB[key], seen)) { seen.delete(a); return false; } }
EqualKeysLoop(h, a, b, i, seen, d, top) ==
  IF i > Len(Keys)
    THEN [res |-> TRUE, seen |-> Unbind(seen, a), ok |-> TRUE, top |-> top]
    ELSE IF Keys[i] \notin OwnKeys(h[a])
    THEN EqualKeysLoop(h, a, b, i + 1, seen, d, top)
    ELSE IF Keys[i] \notin OwnKeys(h[b])
    THEN [res |-> FALSE, seen |-> Unbind(seen, a), ok |-> TRUE, top |-> top]
    ELSE LET r == DeepEqual(h, h[a].props[Keys[i]], h[b].props[Keys[i]],
                            seen, d + 1) IN
         IF ~r.ok THEN r
         ELSE IF ~r.res
           THEN [r EXCEPT !.seen = Unbind(r.seen, a), !.top = Max(top, r.top)]
         ELSE EqualKeysLoop(h, a, b, i + 1, r.seen, d, Max(top, r.top))

DeepEqual(h, a, b, seen, d) ==
  IF d > StackLimit
    THEN [res |-> FALSE, seen |-> seen, ok |-> FALSE, top |-> d]
  ELSE IF ObjectIs(a, b) THEN EqRet(TRUE, seen, d)
  ELSE IF a = Null \/ a = Undefined \/ b = Null \/ b = Undefined
    THEN EqRet(EqNullish(a, b), seen, d)
  ELSE IF TypeOf(h, a) # TypeOf(h, b) THEN EqRet(FALSE, seen, d)
  ELSE IF TypeOf(h, a) # "object" THEN EqRet(FALSE, seen, d)
  ELSE IF EqSeenHas(seen, a) THEN EqRet(EqSeenGet(seen, a, b), seen, d)
  ELSE IF IsKind(h, a, "date") /\ IsKind(h, b, "date")
    THEN EqRet(ObjectIs(h[a.a].time, h[b.a].time), seen, d)
  ELSE IF IsKind(h, a, "regexp") /\ IsKind(h, b, "regexp")
    THEN EqRet(h[a.a].source = h[b.a].source /\ h[a.a].flags = h[b.a].flags,
               seen, d)
  ELSE IF IsKind(h, a, "set") /\ IsKind(h, b, "set")
    THEN IF SizeDiffers(h[a.a].elems, h[b.a].elems) THEN EqRet(FALSE, seen, d)
         ELSE EqualSetLoop(h, a.a, b.a, 1, Bind(seen, a.a, b), d, d)
  ELSE IF IsKind(h, a, "map") /\ IsKind(h, b, "map")
    THEN IF SizeDiffers(h[a.a].entries, h[b.a].entries)
           THEN EqRet(FALSE, seen, d)
         ELSE EqualMapLoop(h, a.a, b.a, 1, Bind(seen, a.a, b), d, d)
  ELSE IF IsKind(h, a, "array") /\ IsKind(h, b, "array")
    THEN IF Len(h[a.a].elems) # Len(h[b.a].elems) THEN EqRet(FALSE, seen, d)
         ELSE EqualArrayLoop(h, a.a, b.a, 1, Bind(seen, a.a, b), d, d)
  ELSE IF IsKind(h, a, "array") \/ IsKind(h, b, "array")
    THEN EqRet(FALSE, seen, d)
  ELSE IF TypeOf(h, a) = "function" /\ TypeOf(h, b) = "function"
    THEN EqRet(StrictEq(a, b), seen, d)
  ELSE IF Cardinality(OwnKeys(h[a.a])) # Cardinality(OwnKeys(h[b.a]))
    THEN EqRet(FALSE, Unbind(Bind(seen, a.a, b), a.a), d)
  ELSE EqualKeysLoop(h, a.a, b.a, 1, Bind(seen, a.a, b), d, d)

\* isEqual(a, b)
IsEqual(h, a, b) == DeepEqual(h, a, b, <<>>, 0)

(***************************************************************************)
(* deepMerge(target, ...sourcesAndOptions)                                  *)
(***************************************************************************)
\* DEFAULT_OPTIONS.maxDepth
DefaultMaxDepth == 50

\* the numbers the depth guard compares with
Decimal == <<"1", "2", "3", "4", "5">>

\* the number n as a value
NumOf(n) == IF n = 0 THEN PosZero ELSE Num(Decimal[n])

NumVal(v) ==
  CASE v = PosZero -> 0
    [] v = NegZero -> 0
    [] v = Num("50") -> DefaultMaxDepth
    [] OTHER -> CHOOSE n \in DOMAIN Decimal : Decimal[n] = v.p

DEFAULT_OPTIONS == [arrayMergeStrategy |-> Str("concat"), maxDepth |-> Num("50")]

\* typeof obj === 'object' && obj !== null && !Array.isArray(obj)
IsObjectNotArray(h, v) ==
  IsRef(v) /\ TypeOf(h, v) = "object" /\ h[v.a].kind # "array"

\* isPlainObject(obj)
IsPlainObject(h, v) ==
  IF ~IsRef(v) \/ TypeOf(h, v) # "object" THEN FALSE
  ELSE IF h[v.a].kind = "array" THEN FALSE
  ELSE IF h[v.a].kind \in {"date", "regexp"} THEN FALSE
  ELSE h[v.a].kind = "object" /\ h[v.a].proto \in {"null", "Object"}

\* depth >= options.maxDepth
DepthReached(depth, options) ==
  /\ options.maxDepth.t = "number"
  /\ options.maxDepth # NaN
  /\ depth >= NumVal(options.maxDepth)

\* depth > options.maxDepth (a comparison with undefined or NaN is false)
DepthExceeded(depth, options) ==
  /\ options.maxDepth.t = "number"
  /\ options.maxDepth # NaN
  /\ depth > NumVal(options.maxDepth)

\* a nested merge that runs at the depth of the merge around it
DeeperNever(depth) == depth

\* depth + 1, the depth of the nested merge
Deeper(depth) == depth + 1

\* obj[key], undefined when obj has no such property
GetProp(c, key) == IF key \in OwnKeys(c) THEN c.props[key] ELSE Undefined

\* { ...target }
SpreadOf(c) ==
  [kind |-> "object", proto |-> "Object",
   props |-> IF c.kind = "object" THEN c.props ELSE <<>>]

\* [...sourceValue, ...targetValue]
ConcatReversed(c1, c2) == [kind |-> "array", elems |-> c2.elems \o c1.elems]

\* [...targetValue, ...sourceValue]
ConcatOf(c1, c2) == [kind |-> "array", elems |-> c1.elems \o c2.elems]

\* const result = target, so that the assignments below write into target
ResultIsTarget(h, target) == [h |-> h, a |-> target.a]

\* const result = { ...target }: the heap with the new object, and its address
NewResult(h, target) ==
  [h |-> Append(h, SpreadOf(h[target.a])), a |-> Len(h) + 1]

MergeRet(h, seen, v, err) == [h |-> h, seen |-> seen, val |-> v, err |-> err]

\* seen.has(target)
\* a variant that takes every nested target for one that is being merged
MergeSeenHasAny(seen, target) == seen # {}

MergeSeenHas(seen, target) == target.a \in seen

\* if (typeof source !== 'object') continue
SkipPrimitives(h, source) == ~IsRef(source)

\* if (!isPlainObject(source)) continue
SkipSource(h, source) == ~IsPlainObject(h, source)

RECURSIVE MergeInternal(_, _, _, _, _, _)
RECURSIVE MergeSources(_, _, _, _, _, _, _)
RECURSIVE MergeKeys(_, _, _, _, _, _, _)

\* for (const key of Object.keys(source)) { ... }, from the i-th key on
MergeKeys(h, seen, result, source, options, depth, i) ==
  IF i > Len(Keys) THEN MergeRet(h, seen, Ref(result), "none")
  ELSE IF Keys[i] \notin OwnKeys(h[source.a])
    THEN MergeKeys(h, seen, result, source, options, depth, i + 1)
  ELSE
    LET key == Keys[i]
        sourceValue == h[source.a].props[key]
        targetValue == GetProp(h[result], key)
    IN IF IsKind(h, targetValue, "array") /\ IsKind(h, sourceValue, "array")
         THEN IF options.arrayMergeStrategy = Str("concat")
                THEN MergeKeys(
                       [Append(h, ConcatOf(h[targetValue.a], h[sourceValue.a]))
                          EXCEPT ![result] = PutProp(@, key, Ref(Len(h) + 1))],
                       seen, result, source, options, depth, i + 1)
                ELSE MergeKeys([h EXCEPT ![result] = PutProp(@, key, sourceValue)],
                               seen, result, source, options, depth, i + 1)
       ELSE IF IsPlainObject(h, targetValue) /\ IsPlainObject(h, sourceValue)
         THEN LET r == MergeInternal(h, seen, targetValue, <<sourceValue>>,
                                     options, Deeper(depth)) IN
              IF r.err # "none" THEN r
              ELSE MergeKeys([r.h EXCEPT ![result] = PutProp(@, key, r.val)],
                             r.seen, result, source, options, depth, i + 1)
       ELSE MergeKeys([h EXCEPT ![result] = PutProp(@, key, sourceValue)],
                      seen, result, source, options, depth, i + 1)

\* for (const source of sources) { if (!isPlainObject(source)) continue; ... }
MergeSources(h, seen, result, sources, options, depth, j) ==
  IF j > Len(sources) THEN MergeRet(h, seen, Ref(result), "none")
  ELSE IF SkipSource(h, sources[j])
    THEN MergeSources(h, seen, result, sources, options, depth, j + 1)
  ELSE LET r == MergeKeys(h, seen, result, sources[j], options, depth, 1) IN
       IF r.err # "none" THEN r
       ELSE MergeSources(r.h, r.seen, result, sources, options, depth, j + 1)

\* mergeInternal(target, sources, options, depth = 0, seen = new WeakSet())
MergeInternal(h, seen, target, sources, options, depth) ==
  IF depth > StackLimit THEN MergeRet(h, seen, Undefined, "stack")
  ELSE IF DepthExceeded(depth, options) THEN MergeRet(h, seen, Undefined, "depth")
  ELSE IF MergeSeenHas(seen, target) THEN MergeRet(h, seen, target, "none")
  ELSE LET n == NewResult(h, target)
           r == MergeSources(n.h, seen \cup {target.a}, n.a, sources,
                             options, depth, 1)
       IN IF r.err # "none" THEN r
          ELSE [r EXCEPT !.seen = @ \ {target.a}]

\* a detection that takes any object in the last position for the options
IsOptionsAnyObject(h, lastArg) == IsRef(lastArg) /\ TypeOf(h, lastArg) = "object"

\* 'arrayMergeStrategy' in lastArg || 'maxDepth' in lastArg
IsOptions(h, lastArg) ==
  /\ lastArg \notin {Null, Undefined, PosZero, NegZero, NaN, Str("")}
  /\ TypeOf(h, lastArg) = "object"
  /\ ("arrayMergeStrategy" \in OwnKeys(h[lastArg.a])
      \/ "maxDepth" \in OwnKeys(h[lastArg.a]))

\* { ...DEFAULT_OPTIONS, ...options }
MergedOptions(c) ==
  [arrayMergeStrategy |->
     IF "arrayMergeStrategy" \in OwnKeys(c) THEN c.props["arrayMergeStrategy"]
     ELSE DEFAULT_OPTIONS.arrayMergeStrategy,
   maxDepth |->
     IF "maxDepth" \in OwnKeys(c) THEN c.props["maxDepth"]
     ELSE DEFAULT_OPTIONS.maxDepth]

\* deepMerge(target, ...rest)
DeepMerge(h, target, rest) ==
  IF ~IsPlainObject(h, target) THEN MergeRet(h, {}, Undefined, "type")
  ELSE IF Len(rest) = 0
    THEN MergeRet(Append(h, SpreadOf(h[target.a])), {}, Ref(Len(h) + 1), "none")
  ELSE LET lastArg == rest[Len(rest)] IN
       IF IsOptions(h, lastArg)
         THEN MergeInternal(h, {}, target, SubSeq(rest, 1, Len(rest) - 1),
                            MergedOptions(h[lastArg.a]), 0)
         ELSE MergeInternal(h, {}, target, rest, MergedOptions(NewObject), 0)

(***************************************************************************)
(* The caller.  Before it calls the library it builds values: it creates   *)
(* cells and stores primitives or references in them, so cycles and shared *)
(* cells occur.  HeapSize bounds what it builds: a plain object weighs 1,  *)
(* a cell of any other kind 2, and every stored slot 1.                    *)
(***************************************************************************)
\* primitives stored inside containers
InnerPrims == {NaN, One}

\* primitives passed as arguments
ArgPrims == {Undefined, Null, PosZero, NegZero, NaN, One, Str("1")}

EmptyCells ==
  {NewObject, NewArray, NewSet, NewMap, NewDate(NaN), NewDate(One),
   NewRegExp("x", ""), NewRegExp("x", "g"), NewFunction}

Refs(h) == {Ref(i) : i \in 1..Len(h)}

\* what can be stored in a slot
Slots(h) == InnerPrims \cup Refs(h)

CellSize(c) ==
  CASE c.kind = "object" ->
         (IF c.proto = "Object" THEN 1 ELSE 2) + Cardinality(DOMAIN c.props)
    [] c.kind \in {"array", "set"} -> 2 + Len(c.elems)
    [] c.kind = "map" -> 2 + 2 * Len(c.entries)
    [] OTHER -> 2

RECURSIVE SizeFrom(_, _)
SizeFrom(h, i) == IF i > Len(h) THEN 0 ELSE CellSize(h[i]) + SizeFrom(h, i + 1)

HeapSize(h) == SizeFrom(h, 1)

Init ==
  /\ heap = <<>>
  /\ pre = <<>>
  /\ op = "idle"
  /\ args = <<>>
  /\ ret = [ok |-> TRUE]
  /\ fn = "none"
  /\ wait = 0
  /\ leading = FALSE
  /\ trailing = FALSE
  /\ maxWait = <<>>
  /\ now = 0
  /\ timers = <<>>
  /\ timeoutId = <<>>
  /\ maxTimeoutId = <<>>
  /\ lastArgs = <<>>
  /\ lastCallTime = <<>>
  /\ lastInvokeTime = 0
  /\ lastResult = <<>>
  /\ called = <<>>
  /\ invoked = <<>>
  /\ onceCalled = FALSE
  /\ onceResult = <<>>
  /\ hasError = FALSE
  /\ error = <<>>
  /\ stack = <<>>
  /\ runs = <<>>
  /\ log = <<>>

\* const x = {} | [] | new Set() | new Map() | new Date(t) | /x/g | () => {}
New(c) ==
  /\ op = "idle"
  /\ heap' = Append(heap, c)
  /\ UNCHANGED <<pre, op, args, ret>>
  /\ UNCHANGED <<timing, memo>>

\* x[k] = v on a plain object
SetProp(a, k, v) ==
  /\ op = "idle"
  /\ heap[a].kind = "object"
  /\ k \notin DOMAIN heap[a].props
  /\ heap' = [heap EXCEPT ![a] = PutProp(@, k, v)]
  /\ UNCHANGED <<pre, op, args, ret>>
  /\ UNCHANGED <<timing, memo>>

\* x.push(v)
Push(a, v) ==
  /\ op = "idle"
  /\ heap[a].kind = "array"
  /\ heap' = [heap EXCEPT ![a].elems = Append(@, v)]
  /\ UNCHANGED <<pre, op, args, ret>>
  /\ UNCHANGED <<timing, memo>>

\* x.add(v) of a value the Set does not hold
Add(a, v) ==
  /\ op = "idle"
  /\ heap[a].kind = "set"
  /\ SetAdd(heap[a], v) # heap[a]
  /\ heap' = [heap EXCEPT ![a] = SetAdd(@, v)]
  /\ UNCHANGED <<pre, op, args, ret>>
  /\ UNCHANGED <<timing, memo>>

\* x.set(k, v) of a key the Map does not hold
Put(a, k, v) ==
  /\ op = "idle"
  /\ HeapSize(heap) + 2 <= MaxSize
  /\ heap[a].kind = "map"
  /\ Len(MapSet(heap[a], k, v).entries) > Len(heap[a].entries)
  /\ heap' = [heap EXCEPT ![a] = MapSet(@, k, v)]
  /\ UNCHANGED <<pre, op, args, ret>>
  /\ UNCHANGED <<timing, memo>>

\* the cells of heap h of kind k
OfKind(h, k) == {a \in DOMAIN h : h[a].kind = k}

Build ==
  /\ op = "idle"
  /\ HeapSize(heap) < MaxSize
  /\ \/ \E c \in EmptyCells :
          /\ HeapSize(heap) + CellSize(c) <= MaxSize
          /\ New(c)
     \/ \E a \in OfKind(heap, "object"), k \in {"a", "b"}, v \in Slots(heap) :
          SetProp(a, k, v)
     \/ \E a \in OfKind(heap, "array"), v \in Slots(heap) : Push(a, v)
     \/ \E a \in OfKind(heap, "set"), v \in Slots(heap) : Add(a, v)
     \/ \E a \in OfKind(heap, "map"), k \in Slots(heap), v \in Slots(heap) :
          Put(a, k, v)

\* the cells a cell refers to
CellRefs(c) ==
  LET vals == CASE c.kind = "object" -> {c.props[k] : k \in DOMAIN c.props}
                [] c.kind \in {"array", "set"} -> {c.elems[i] : i \in 1..Len(c.elems)}
                [] c.kind = "map" ->
                     {c.entries[i][1] : i \in 1..Len(c.entries)}
                     \cup {c.entries[i][2] : i \in 1..Len(c.entries)}
                [] OTHER -> {}
  IN {v.a : v \in {w \in vals : IsRef(w)}}

RECURSIVE Closure(_, _)
Closure(h, S) ==
  LET T == S \cup UNION {CellRefs(h[a]) : a \in S}
  IN IF T = S THEN S ELSE Closure(h, T)

\* the cells reachable from a value
Reach(h, v) == IF IsRef(v) THEN Closure(h, {v.a}) ELSE {}

\* the slots of a cell in the order a traversal visits them
SlotSeq(c) ==
  CASE c.kind = "object" ->
         LET ks == SelectSeq(Keys, LAMBDA k : k \in DOMAIN c.props)
         IN [i \in 1..Len(ks) |-> c.props[ks[i]]]
    [] c.kind \in {"array", "set"} -> c.elems
    [] c.kind = "map" ->
         [i \in 1..(2 * Len(c.entries)) |->
            c.entries[(i + 1) \div 2][IF i % 2 = 1 THEN 1 ELSE 2]]
    [] OTHER -> <<>>

\* found, extended by the cells vals[i..] refer to that it does not hold yet
RECURSIVE Scan(_, _, _)
Scan(found, vals, i) ==
  IF i > Len(vals) THEN found
  ELSE IF IsRef(vals[i]) /\ \A j \in DOMAIN found : found[j] # vals[i].a
    THEN Scan(Append(found, vals[i].a), vals, i + 1)
  ELSE Scan(found, vals, i + 1)

RECURSIVE Visit(_, _, _)
Visit(h, found, i) ==
  IF i > Len(found) THEN found
  ELSE Visit(h, Scan(found, SlotSeq(h[found[i]]), 1), i + 1)

\* A call is explored when the caller has built its arguments and nothing
\* else, with the cells named 1, 2, ... in the order a breadth-first walk from
\* the arguments meets them.  Cells have no other name than their creation
\* order, so every call on values of this size is a renaming of such a call.
Canonical(h, q) == Visit(h, Scan(<<>>, q, 1), 1) = [i \in DOMAIN h |-> i]

\* the references that k arguments named in this way can hold
ArgRefs(h, k) == {Ref(i) : i \in {j \in DOMAIN h : j <= k}}

\* the values a caller holding heap h can pass as one of k arguments
Values(h, k) == ArgPrims \cup ArgRefs(h, k)

\* const y = cloneDeep(x)
CallCloneDeep(x) ==
  /\ op = "idle"
  /\ Canonical(heap, <<x>>)
  /\ LET r == CloneDeep(heap, <<>>, x, 0) IN
       /\ heap' = r.h
       /\ ret' = [ok |-> r.ok, val |-> r.val, top |-> r.top, seen |-> r.seen]
  /\ pre' = heap
  /\ op' = "cloneDeep"
  /\ args' = <<x>>
  /\ UNCHANGED <<timing, memo>>

\* const e = isEqual(a, b)
CallIsEqual(a, b) ==
  /\ op = "idle"
  /\ Canonical(heap, <<a, b>>)
  /\ LET r == IsEqual(heap, a, b) IN
       ret' = [ok |-> r.ok, val |-> r.res, top |-> r.top, seen |-> r.seen]
  /\ heap' = heap
  /\ pre' = heap
  /\ op' = "isEqual"
  /\ args' = <<a, b>>
  /\ UNCHANGED <<timing, memo>>

\* const e = isEqual(x, y) on the argument and the result of the cloneDeep
\* that has just returned
CallIsEqualOnClone ==
  /\ op = "cloneDeep"
  /\ ret.ok
  /\ LET r == IsEqual(heap, args[1], ret.val) IN
       ret' = [ok |-> r.ok, val |-> r.res, top |-> r.top, seen |-> r.seen]
  /\ op' = "isEqualClone"
  /\ args' = <<args[1], ret.val>>
  /\ UNCHANGED <<heap, pre>>
  /\ UNCHANGED <<timing, memo>>

\* deepMerge(x), and deepMerge(x, x) when withSource
CallDeepMergeOn(x, withSource) ==
  /\ op = "idle"
  /\ Canonical(heap, <<x>>)
  /\ LET rest == IF withSource THEN <<x>> ELSE <<>>
         r == DeepMerge(heap, x, rest)
     IN /\ heap' = r.h
        /\ ret' = [ok |-> r.err # "stack", val |-> r.val, err |-> r.err,
                   seen |-> r.seen]
        /\ args' = <<x>> \o rest
  /\ pre' = heap
  /\ op' = "deepMerge"
  /\ UNCHANGED <<timing, memo>>

Next ==
  \/ Build
  \/ \E x \in Values(heap, 1) : CallCloneDeep(x)
  \/ CallIsEqualOnClone
  \/ \E a \in Values(heap, 2), b \in Values(heap, 2) : CallIsEqual(a, b)
  \/ \E x \in Values(heap, 1), withSource \in BOOLEAN :
       CallDeepMergeOn(x, withSource)

Spec == Init /\ [][Next]_vars

(***************************************************************************)
(* The caller of deepMerge builds plain objects, arrays, a class instance  *)
(* or a Date, and option objects, within MaxMergeSize.                     *)
(***************************************************************************)
\* the option objects a caller writes
OptionCells ==
  {PutProp(NewObject, "maxDepth", PosZero),
   PutProp(NewObject, "arrayMergeStrategy", Str("replace"))}

MergeCells == {NewObject, NewArray, NewObjectOf("class")} \cup OptionCells

\* primitives passed to deepMerge in place of an object
MergePrims == {Null, One}

\* what the caller of deepMerge stores in a slot
MergeSlots(h) == {One} \cup Refs(h)

\* an options literal counts as one unit, an array as one plus its elements
MergeCellSize(c) ==
  IF c \in OptionCells THEN 1
  ELSE IF c.kind = "array" THEN 1 + Len(c.elems)
  ELSE CellSize(c)

RECURSIVE MergeSizeFrom(_, _)
MergeSizeFrom(h, i) ==
  IF i > Len(h) THEN 0 ELSE MergeCellSize(h[i]) + MergeSizeFrom(h, i + 1)

MergeHeapSize(h) == MergeSizeFrom(h, 1)

\* The argument lists that start with q: q names `used` cells, in order, and
\* `spare` more arguments may be primitives or repeat a cell already named.
RECURSIVE ArgLists(_, _, _, _)
ArgLists(h, q, used, spare) ==
  IF Len(q) > MaxRest THEN {q}
  ELSE {q}
       \cup (IF used < Len(h)
             THEN ArgLists(h, Append(q, Ref(used + 1)), used + 1, spare)
             ELSE {})
       \cup (IF spare > 0
             THEN UNION {ArgLists(h, Append(q, x), used, spare - 1) :
                           x \in MergePrims \cup {Ref(i) : i \in 1..used}}
             ELSE {})

\* the argument lists (target first) of the calls on heap h
MergeArgs(h) ==
  {q \in ArgLists(h, <<>>, 0, MaxMergeSize - MergeHeapSize(h)) : Len(q) > 0}

BuildMerge ==
  /\ op = "idle"
  /\ MergeHeapSize(heap) < MaxMergeSize
  /\ \/ \E c \in MergeCells :
          /\ MergeHeapSize(heap) + MergeCellSize(c) <= MaxMergeSize
          /\ New(c)
     \/ \E a \in OfKind(heap, "object"), k \in {"a", "b"}, v \in MergeSlots(heap) :
          /\ heap[a] \notin OptionCells
          /\ SetProp(a, k, v)
     \/ \E a \in OfKind(heap, "array"), v \in MergeSlots(heap) : Push(a, v)

\* const r = deepMerge(target, ...rest)
CallDeepMerge(target, rest) ==
  /\ op = "idle"
  /\ Canonical(heap, <<target>> \o rest)
  /\ LET r == DeepMerge(heap, target, rest) IN
       /\ heap' = r.h
       /\ ret' = [ok |-> r.err # "stack", val |-> r.val, err |-> r.err,
                  seen |-> r.seen]
  /\ pre' = heap
  /\ op' = "deepMerge"
  /\ args' = <<target>> \o rest
  /\ UNCHANGED <<timing, memo>>

NextMerge ==
  \/ BuildMerge
  \/ \E q \in MergeArgs(heap) : CallDeepMerge(q[1], SubSeq(q, 2, Len(q)))

SpecMerge == Init /\ [][NextMerge]_vars

(***************************************************************************)
(* The caller of deepMerge on arrays: a target { a: [...] }, sources       *)
(* { a: [...] } or { a: 1 } collected in args, then one call, with or      *)
(* without a trailing options literal.                                     *)
(***************************************************************************)
\* elements of the array literals
ArrayElems == {One, Str("1")}

ElemSeqs == UNION {[1..n -> ArrayElems] : n \in 0..MaxElems}

ArrayOf(e) == [kind |-> "array", elems |-> e]

\* the values stored at key a: an array literal or 1
AValues == {ArrayOf(e) : e \in ElemSeqs} \cup {One}

\* the heap after const x = { a: v }, x being the last cell
WithLiteral(h, v) ==
  IF v = One THEN Append(h, PutProp(NewObject, "a", One))
  ELSE Append(Append(h, v), PutProp(NewObject, "a", Ref(Len(h) + 1)))

\* const target = { a: [...] }
ArrTarget(e) ==
  /\ op = "idle"
  /\ heap = <<>>
  /\ heap' = WithLiteral(heap, ArrayOf(e))
  /\ args' = <<Ref(Len(heap'))>>
  /\ UNCHANGED <<pre, op, ret>>
  /\ UNCHANGED <<timing, memo>>

\* const source = { a: [...] } or { a: 1 }
ArrSource(v) ==
  /\ op = "idle"
  /\ Len(args) \in 1..MaxArraySources
  /\ heap' = WithLiteral(heap, v)
  /\ args' = Append(args, Ref(Len(heap')))
  /\ UNCHANGED <<pre, op, ret>>
  /\ UNCHANGED <<timing, memo>>

StrategyCells ==
  {PutProp(NewObject, "arrayMergeStrategy", Str("concat")),
   PutProp(NewObject, "arrayMergeStrategy", Str("replace"))}

\* deepMerge(target, ...sources) and deepMerge(target, ...sources, options)
CallMergeArrays(opts) ==
  /\ op = "idle"
  /\ Len(args) > 1
  /\ LET h == IF opts = Null THEN heap ELSE Append(heap, opts)
         q == IF opts = Null THEN args ELSE Append(args, Ref(Len(h)))
         r == DeepMerge(h, q[1], SubSeq(q, 2, Len(q)))
     IN /\ heap' = r.h
        /\ pre' = h
        /\ args' = q
        /\ ret' = [ok |-> r.err # "stack", val |-> r.val, err |-> r.err,
                   seen |-> r.seen]
  /\ op' = "deepMergeArrays"
  /\ UNCHANGED <<timing, memo>>

NextArrays ==
  \/ \E e \in ElemSeqs : ArrTarget(e)
  \/ \E v \in AValues : ArrSource(v)
  \/ \E opts \in {Null} \cup StrategyCells : CallMergeArrays(opts)

SpecArrays == Init /\ [][NextArrays]_vars

(***************************************************************************)
(* The caller of deepMerge on nested literals: target and sources are      *)
(* { a: 1 }, { a: { a: 1 } }, ... collected in args, then one call, with   *)
(* or without a trailing { maxDepth: m }.                                  *)
(***************************************************************************)
\* the heap after const x = { a: { a: ... 1 } } with d objects below x, x last
RECURSIVE WithChain(_, _)
WithChain(h, d) ==
  IF d = 0 THEN Append(h, PutProp(NewObject, "a", One))
  ELSE LET g == WithChain(h, d - 1)
       IN Append(g, PutProp(NewObject, "a", Ref(Len(g))))

\* const target = { a: ... }
ChainTarget(d) ==
  /\ op = "idle"
  /\ heap = <<>>
  /\ heap' = WithChain(heap, d)
  /\ args' = <<Ref(Len(heap'))>>
  /\ UNCHANGED <<pre, op, ret>>
  /\ UNCHANGED <<timing, memo>>

\* const source = { a: ... }
ChainSource(d) ==
  /\ op = "idle"
  /\ Len(args) \in 1..MaxChainSources
  /\ heap' = WithChain(heap, d)
  /\ args' = Append(args, Ref(Len(heap')))
  /\ UNCHANGED <<pre, op, ret>>
  /\ UNCHANGED <<timing, memo>>

DepthCells == {PutProp(NewObject, "maxDepth", NumOf(m)) : m \in 0..MaxNest}

\* deepMerge(target, ...sources) and deepMerge(target, ...sources, { maxDepth })
CallMergeChains(opts) ==
  /\ op = "idle"
  /\ Len(args) > 1
  /\ LET h == IF opts = Null THEN heap ELSE Append(heap, opts)
         q == IF opts = Null THEN args ELSE Append(args, Ref(Len(h)))
         r == DeepMerge(h, q[1], SubSeq(q, 2, Len(q)))
     IN /\ heap' = r.h
        /\ pre' = h
        /\ args' = q
        /\ ret' = [ok |-> r.err # "stack", val |-> r.val, err |-> r.err,
                   seen |-> r.seen]
  /\ op' = "deepMergeChains"
  /\ UNCHANGED <<timing, memo>>

NextChains ==
  \/ \E d \in 0..MaxNest : ChainTarget(d)
  \/ \E d \in 0..MaxNest : ChainSource(d)
  \/ \E opts \in {Null} \cup DepthCells : CallMergeChains(opts)

SpecChains == Init /\ [][NextChains]_vars

(***************************************************************************)
(* The caller of deepMerge on cycles: a target that contains itself at key *)
(* a, with or without an empty object at key b, and sources that contain   *)
(* themselves at key a or b, collected in args; then one call, with or     *)
(* without a trailing { maxDepth: m }.                                     *)
(***************************************************************************)
\* const target = { b: {} }; target.a = target   (or without b)
CycleTarget(withB) ==
  /\ op = "idle"
  /\ heap = <<>>
  /\ heap' = IF withB
               THEN <<NewObject,
                      PutProp(PutProp(NewObject, "a", Ref(2)), "b", Ref(1))>>
               ELSE <<PutProp(NewObject, "a", Ref(1))>>
  /\ args' = <<Ref(Len(heap'))>>
  /\ UNCHANGED <<pre, op, ret>>
  /\ UNCHANGED <<timing, memo>>

\* const source = {}; source[key] = source
CycleSource(key) ==
  /\ op = "idle"
  /\ Len(args) \in 1..MaxRepeats
  /\ heap' = Append(heap, PutProp(NewObject, key, Ref(Len(heap) + 1)))
  /\ args' = Append(args, Ref(Len(heap')))
  /\ UNCHANGED <<pre, op, ret>>
  /\ UNCHANGED <<timing, memo>>

\* the last source is passed once more
RepeatSource ==
  /\ op = "idle"
  /\ Len(args) \in 2..MaxRepeats
  /\ args' = Append(args, args[Len(args)])
  /\ UNCHANGED <<heap, pre, op, ret>>
  /\ UNCHANGED <<timing, memo>>

CycleDepthCells ==
  {PutProp(NewObject, "maxDepth", NumOf(m)) : m \in 0..(MaxRepeats + 1)}

\* deepMerge(target, ...sources) and deepMerge(target, ...sources, { maxDepth })
CallMergeCycles(opts) ==
  /\ op = "idle"
  /\ Len(args) > 1
  /\ LET h == IF opts = Null THEN heap ELSE Append(heap, opts)
         q == IF opts = Null THEN args ELSE Append(args, Ref(Len(h)))
         r == DeepMerge(h, q[1], SubSeq(q, 2, Len(q)))
     IN /\ heap' = r.h
        /\ pre' = h
        /\ args' = q
        /\ ret' = [ok |-> r.err # "stack", val |-> r.val, err |-> r.err,
                   seen |-> r.seen]
  /\ op' = "deepMergeCycles"
  /\ UNCHANGED <<timing, memo>>

NextCycles ==
  \/ \E withB \in BOOLEAN : CycleTarget(withB)
  \/ \E key \in {"a", "b"} : CycleSource(key)
  \/ RepeatSource
  \/ \E opts \in {Null} \cup CycleDepthCells : CallMergeCycles(opts)

SpecCycles == Init /\ [][NextCycles]_vars

(***************************************************************************)
(* Timers.  An undefined variable of the closure is <<>>, a defined one is *)
(* <<v>>.  The arguments of the k-th call are k.  The closure c is the     *)
(* record of the variables a handler reads and writes; a handler is an     *)
(* operator from the closure before to the closure after.  The runtime     *)
(* keeps its pending timers in creation order and runs a timer when the    *)
(* clock has reached its due time, the earliest created first.             *)
(***************************************************************************)
This ==
  [timers |-> timers, timeoutId |-> timeoutId, maxTimeoutId |-> maxTimeoutId,
   lastArgs |-> lastArgs, lastCallTime |-> lastCallTime,
   lastInvokeTime |-> lastInvokeTime, lastResult |-> lastResult,
   invoked |-> invoked]

Assign(c) ==
  /\ timers' = c.timers
  /\ timeoutId' = c.timeoutId
  /\ maxTimeoutId' = c.maxTimeoutId
  /\ lastArgs' = c.lastArgs
  /\ lastCallTime' = c.lastCallTime
  /\ lastInvokeTime' = c.lastInvokeTime
  /\ lastResult' = c.lastResult
  /\ invoked' = c.invoked

\* the id setTimeout returns: one that no pending timer and no variable holds
FreshId(c) ==
  LET used == {c.timers[i].id : i \in DOMAIN c.timers}
                \cup {c.timeoutId[i] : i \in DOMAIN c.timeoutId}
                \cup {c.maxTimeoutId[i] : i \in DOMAIN c.maxTimeoutId}
  IN CHOOSE i \in 1..(Cardinality(used) + 1) :
       i \notin used /\ \A j \in 1..(i - 1) : j \in used

\* timeoutId = setTimeout(timerExpired, delay)
SetTimeout(c, delay) ==
  LET i == FreshId(c) IN
    [c EXCEPT !.timers = Append(@, [run |-> "timerExpired",
                                     due |-> now + delay, id |-> i]),
              !.timeoutId = <<i>>]

\* maxTimeoutId = setTimeout(maxTimerExpired, delay)
SetMaxTimeout(c, delay) ==
  LET i == FreshId(c) IN
    [c EXCEPT !.timers = Append(@, [run |-> "maxTimerExpired",
                                     due |-> now + delay, id |-> i]),
              !.maxTimeoutId = <<i>>]

\* clearTimeout(id)
ClearTimeout(c, id) ==
  [c EXCEPT !.timers = SelectSeq(@, LAMBDA t : <<t.id>> # id)]

\* invokeFunc(time); sync tells whether a call or a timer runs it; func
\* returns its arguments
InvokeFunc(c, time, sync) ==
  [c EXCEPT !.lastArgs = <<>>,
            !.lastInvokeTime = time,
            !.lastResult = c.lastArgs,
            !.invoked = Append(@, [at |-> time, args |-> c.lastArgs[1],
                                   sync |-> sync])]

\* the pending timers whose time has come
Due == {i \in DOMAIN timers : timers[i].due <= now}

\* the timer the runtime runs next: the earliest due, the earliest created
NextTimer ==
  CHOOSE i \in Due :
    \A j \in Due : \/ timers[i].due < timers[j].due
                   \/ timers[i].due = timers[j].due /\ i <= j

Without(q, i) == SubSeq(q, 1, i - 1) \o SubSeq(q, i + 1, Len(q))

\* a millisecond passes; the runtime runs the due timers first
Tick ==
  /\ fn # "none"
  /\ now < MaxTime
  /\ Due = {}
  /\ now' = now + 1
  /\ UNCHANGED <<values, memo, fn, wait, leading, trailing, maxWait, timers,
                 timeoutId, maxTimeoutId, lastArgs, lastCallTime,
                 lastInvokeTime, lastResult, called, invoked>>

(***************************************************************************)
(* throttle                                                                *)
(***************************************************************************)
\* a variant that lets every call through
ThrottleShouldInvokeAlways(c, time) == TRUE

ThrottleShouldInvoke(c, time) ==
  c.lastCallTime = <<>> \/ time - c.lastInvokeTime >= wait

ThrottleLeadingEdge(c, time) ==
  LET c1 == [c EXCEPT !.lastInvokeTime = time]
      c2 == IF trailing THEN SetTimeout(c1, wait) ELSE c1
  IN IF leading THEN InvokeFunc(c2, time, TRUE) ELSE c2

\* a variant that drops the pending arguments when the timer expires
ThrottleTrailingEdgeDrop(c, time) ==
  [c EXCEPT !.timeoutId = <<>>, !.lastArgs = <<>>]

ThrottleTrailingEdge(c, time) ==
  LET c1 == [c EXCEPT !.timeoutId = <<>>]
  IN IF trailing /\ c1.lastArgs # <<>>
       THEN InvokeFunc(c1, time, FALSE)
       ELSE [c1 EXCEPT !.lastArgs = <<>>]

ThrottleTimerExpired(c) == ThrottleTrailingEdge(c, now)

Throttled(c, a) ==
  LET time == now
      isInvoking == ThrottleShouldInvoke(c, time)
      c1 == [c EXCEPT !.lastArgs = <<a>>, !.lastCallTime = <<time>>]
  IN IF isInvoking /\ c1.timeoutId = <<>>
       THEN ThrottleLeadingEdge(c1, time)
       ELSE IF c1.timeoutId = <<>> /\ trailing
              THEN SetTimeout(c1, wait)
              ELSE c1

\* const throttled = throttle(func, w, { leading: l, trailing: t })
Throttle(w, l, t) ==
  /\ fn = "none"
  /\ fn' = "throttle"
  /\ wait' = w
  /\ leading' = l
  /\ trailing' = t
  /\ UNCHANGED <<values, memo, maxWait, now, timers, timeoutId, maxTimeoutId,
                 lastArgs, lastCallTime, lastInvokeTime, lastResult, called,
                 invoked>>

\* throttled(k), the k-th call
CallThrottled ==
  /\ fn = "throttle"
  /\ Len(called) < MaxCalls
  /\ called' = Append(called, now)
  /\ Assign(Throttled(This, Len(called) + 1))
  /\ UNCHANGED <<values, memo, fn, wait, leading, trailing, maxWait, now>>

\* the runtime runs the next due timer of the throttled function
RunThrottleTimer ==
  /\ fn = "throttle"
  /\ Due # {}
  /\ Assign(ThrottleTimerExpired(
              [This EXCEPT !.timers = Without(@, NextTimer)]))
  /\ UNCHANGED <<values, memo, fn, wait, leading, trailing, maxWait, now, called>>

NextThrottle ==
  \/ \E w \in 0..MaxWait, l \in BOOLEAN, t \in BOOLEAN : Throttle(w, l, t)
  \/ CallThrottled
  \/ RunThrottleTimer
  \/ Tick

SpecThrottle == Init /\ [][NextThrottle]_vars

(***************************************************************************)
(* debounce                                                                *)
(***************************************************************************)
Min(x, y) == IF x <= y THEN x ELSE y

\* lastCallTime || 0
LastCallTimeOr0(c) == IF c.lastCallTime = <<>> THEN 0 ELSE c.lastCallTime[1]

\* a variant that takes every moment for the end of the wait
DebounceShouldInvokeAlways(c, time) == TRUE

DebounceShouldInvoke(c, time) ==
  LET timeSinceLastCall == time - LastCallTimeOr0(c)
      timeSinceLastInvoke == time - c.lastInvokeTime
  IN \/ c.lastCallTime = <<>>
     \/ timeSinceLastCall >= wait
     \/ (maxWait # <<>> /\ timeSinceLastInvoke >= maxWait[1])

DebounceLeadingEdge(c, time) ==
  LET c1 == [c EXCEPT !.lastInvokeTime = time]
      c2 == SetTimeout(c1, wait)
      c3 == IF maxWait # <<>> THEN SetMaxTimeout(c2, maxWait[1]) ELSE c2
  IN IF leading THEN InvokeFunc(c3, time, TRUE) ELSE c3

RemainingWait(c, time) ==
  LET timeSinceLastCall == time - LastCallTimeOr0(c)
      timeSinceLastInvoke == time - c.lastInvokeTime
      timeWaiting == wait - timeSinceLastCall
  IN IF maxWait # <<>>
       THEN Min(timeWaiting, maxWait[1] - timeSinceLastInvoke)
       ELSE timeWaiting

DebounceTrailingEdge(c, time) ==
  LET c1 == [c EXCEPT !.timeoutId = <<>>, !.maxTimeoutId = <<>>]
  IN IF trailing /\ c1.lastArgs # <<>>
       THEN InvokeFunc(c1, time, FALSE)
       ELSE [c1 EXCEPT !.lastArgs = <<>>]

DebounceTimerExpired(c) ==
  LET time == now
  IN IF DebounceShouldInvoke(c, time)
       THEN DebounceTrailingEdge(c, time)
       ELSE SetTimeout(c, RemainingWait(c, time))

\* a variant that clears the regular timer and forgets the trailing edge
MaxTimerExpiredClear(c) ==
  IF c.lastArgs # <<>>
    THEN [ClearTimeout(c, c.timeoutId) EXCEPT !.timeoutId = <<>>,
                                              !.maxTimeoutId = <<>>]
    ELSE c

MaxTimerExpired(c) ==
  LET time == now
  IN IF c.lastArgs # <<>>
       THEN DebounceTrailingEdge(
              [ClearTimeout(c, c.timeoutId) EXCEPT !.timeoutId = <<>>], time)
       ELSE c

Debounced(c, a) ==
  LET time == now
      isInvoking == DebounceShouldInvoke(c, time)
      c1 == [c EXCEPT !.lastArgs = <<a>>, !.lastCallTime = <<time>>]
      c2 == IF c1.timeoutId = <<>> THEN SetTimeout(c1, wait) ELSE c1
      c3 == IF maxWait # <<>> /\ c2.maxTimeoutId = <<>>
              THEN SetMaxTimeout(c2, maxWait[1])
              ELSE c2
  IN IF isInvoking /\ c1.timeoutId = <<>> /\ c1.maxTimeoutId = <<>>
       THEN DebounceLeadingEdge(c1, time)
       ELSE IF isInvoking /\ c1.maxTimeoutId # <<>>
              THEN InvokeFunc(
                     [ClearTimeout(ClearTimeout(c1, c1.timeoutId),
                                   c1.maxTimeoutId)
                        EXCEPT !.timeoutId = <<>>, !.maxTimeoutId = <<>>],
                     time, TRUE)
              ELSE c3

\* const debounced = debounce(func, w, { leading: l, trailing: t, maxWait: m })
Debounce(w, l, t, m) ==
  /\ fn = "none"
  /\ \A i \in DOMAIN m : m[i] >= w
  /\ fn' = "debounce"
  /\ wait' = w
  /\ leading' = l
  /\ trailing' = t
  /\ maxWait' = m
  /\ UNCHANGED <<values, memo, now, timers, timeoutId, maxTimeoutId, lastArgs,
                 lastCallTime, lastInvokeTime, lastResult, called, invoked>>

\* debounced(k), the k-th call
CallDebounced ==
  /\ fn = "debounce"
  /\ Len(called) < MaxCalls
  /\ called' = Append(called, now)
  /\ Assign(Debounced(This, Len(called) + 1))
  /\ UNCHANGED <<values, memo, fn, wait, leading, trailing, maxWait, now>>

\* the runtime runs the next due timer of the debounced function
RunDebounceTimer ==
  /\ fn = "debounce"
  /\ Due # {}
  /\ LET c == [This EXCEPT !.timers = Without(@, NextTimer)]
     IN IF timers[NextTimer].run = "timerExpired"
          THEN Assign(DebounceTimerExpired(c))
          ELSE Assign(MaxTimerExpired(c))
  /\ UNCHANGED <<values, memo, fn, wait, leading, trailing, maxWait, now, called>>

NextDebounce ==
  \/ \E w \in 0..MaxWait, l \in BOOLEAN, t \in BOOLEAN,
        m \in {<<>>} \cup {<<x>> : x \in 0..MaxMaxWait} : Debounce(w, l, t, m)
  \/ CallDebounced
  \/ RunDebounceTimer
  \/ Tick

SpecDebounce == Init /\ [][NextDebounce]_vars

(***************************************************************************)
(* cancel, flush and pending.  A handler that returns a value is a record  *)
(* of the closure after it (c) and the value returned (val).               *)
(***************************************************************************)
ThrottleCancel(c) ==
  LET c1 == IF c.timeoutId # <<>>
              THEN [ClearTimeout(c, c.timeoutId) EXCEPT !.timeoutId = <<>>]
              ELSE c
  IN [c1 EXCEPT !.lastInvokeTime = 0, !.lastArgs = <<>>,
                !.lastCallTime = <<>>]

\* a variant that only returns the last result
ThrottleFlushIdle(c) == [c |-> c, val |-> c.lastResult]

ThrottleFlush(c) ==
  IF c.timeoutId = <<>>
    THEN [c |-> c, val |-> c.lastResult]
    ELSE LET c1 == ThrottleTrailingEdge(c, now)
             \* the invocation, if any, was made inside flush
             c2 == [c1 EXCEPT !.invoked =
                      [i \in DOMAIN @ |->
                         IF i > Len(c.invoked)
                           THEN [@[i] EXCEPT !.sync = TRUE]
                           ELSE @[i]]]
         IN [c |-> c2, val |-> c2.lastResult]

ThrottlePending(c) == c.timeoutId # <<>>

\* a variant that resets the times and leaves timers and arguments alone
DebounceCancelKeep(c) ==
  [c EXCEPT !.lastInvokeTime = 0, !.lastCallTime = <<>>]

DebounceCancel(c) ==
  LET c1 == IF c.timeoutId # <<>>
              THEN [ClearTimeout(c, c.timeoutId) EXCEPT !.timeoutId = <<>>]
              ELSE c
      c2 == IF c1.maxTimeoutId # <<>>
              THEN [ClearTimeout(c1, c1.maxTimeoutId)
                      EXCEPT !.maxTimeoutId = <<>>]
              ELSE c1
  IN [c2 EXCEPT !.lastInvokeTime = 0, !.lastArgs = <<>>,
                !.lastCallTime = <<>>]

DebounceFlush(c) ==
  IF c.timeoutId = <<>> /\ c.maxTimeoutId = <<>>
    THEN [c |-> c, val |-> c.lastResult]
    ELSE LET c1 == IF c.timeoutId # <<>>
                     THEN [ClearTimeout(c, c.timeoutId)
                             EXCEPT !.timeoutId = <<>>]
                     ELSE c
             c2 == IF c1.maxTimeoutId # <<>>
                     THEN [ClearTimeout(c1, c1.maxTimeoutId)
                             EXCEPT !.maxTimeoutId = <<>>]
                     ELSE c1
             c3 == IF c2.lastArgs # <<>>
                     THEN InvokeFunc(c2, now, TRUE)
                     ELSE c2
         IN [c |-> c3, val |-> c3.lastResult]

DebouncePending(c) == c.timeoutId # <<>> \/ c.maxTimeoutId # <<>>

\* throttled.cancel()
CallThrottleCancel ==
  /\ fn = "throttle"
  /\ Assign(ThrottleCancel(This))
  /\ UNCHANGED <<values, memo, fn, wait, leading, trailing, maxWait, now, called>>

\* const r = throttled.flush()
CallThrottleFlush ==
  /\ fn = "throttle"
  /\ Assign(ThrottleFlush(This).c)
  /\ ret' = [ok |-> TRUE, val |-> ThrottleFlush(This).val]
  /\ UNCHANGED <<heap, pre, op, args, memo, fn, wait, leading, trailing, maxWait,
                 now, called>>

\* debounced.cancel()
CallDebounceCancel ==
  /\ fn = "debounce"
  /\ Assign(DebounceCancel(This))
  /\ UNCHANGED <<values, memo, fn, wait, leading, trailing, maxWait, now, called>>

\* const r = debounced.flush()
CallDebounceFlush ==
  /\ fn = "debounce"
  /\ Assign(DebounceFlush(This).c)
  /\ ret' = [ok |-> TRUE, val |-> DebounceFlush(This).val]
  /\ UNCHANGED <<heap, pre, op, args, memo, fn, wait, leading, trailing, maxWait,
                 now, called>>

\* calls, timers, cancel and flush of a throttled or a debounced function
NextControl ==
  \/ \E w \in 0..MaxWait, l \in BOOLEAN, t \in BOOLEAN : Throttle(w, l, t)
  \/ CallThrottled
  \/ RunThrottleTimer
  \/ CallThrottleCancel
  \/ CallThrottleFlush
  \/ \E w \in 0..MaxWait, l \in BOOLEAN, t \in BOOLEAN,
        m \in {<<>>} \cup {<<x>> : x \in 0..MaxMaxWait} : Debounce(w, l, t, m)
  \/ CallDebounced
  \/ RunDebounceTimer
  \/ CallDebounceCancel
  \/ CallDebounceFlush
  \/ Tick

SpecControl == Init /\ [][NextControl]_vars

\* calls, timers and cancel
NextCancel ==
  \/ \E w \in 0..MaxWait, l \in BOOLEAN, t \in BOOLEAN : Throttle(w, l, t)
  \/ CallThrottled
  \/ RunThrottleTimer
  \/ CallThrottleCancel
  \/ \E w \in 0..MaxWait, l \in BOOLEAN, t \in BOOLEAN,
        m \in {<<>>} \cup {<<x>> : x \in 0..MaxMaxWait} : Debounce(w, l, t, m)
  \/ CallDebounced
  \/ RunDebounceTimer
  \/ CallDebounceCancel
  \/ Tick

SpecCancel == Init /\ [][NextCancel]_vars

\* calls, timers and flush
NextFlush ==
  \/ \E w \in 0..MaxWait, l \in BOOLEAN, t \in BOOLEAN : Throttle(w, l, t)
  \/ CallThrottled
  \/ RunThrottleTimer
  \/ CallThrottleFlush
  \/ \E w \in 0..MaxWait, l \in BOOLEAN, t \in BOOLEAN,
        m \in {<<>>} \cup {<<x>> : x \in 0..MaxMaxWait} : Debounce(w, l, t, m)
  \/ CallDebounced
  \/ RunDebounceTimer
  \/ CallDebounceFlush
  \/ Tick

SpecFlush == Init /\ [][NextFlush]_vars

(***************************************************************************)
(* once.  fn(a) returns a or throws a; before it does either it may call   *)
(* the wrapper again.  An unassigned variable is <<>>, an assigned one     *)
(* <<v>>.  The outcome of a call is the value returned or the error        *)
(* thrown.                                                                 *)
(***************************************************************************)
Return(v) == [how |-> "return", v |-> v]
Throw(e) == [how |-> "throw", v |-> e]

\* a variant that never rethrows
OnceEndReturn(hasErr, err, res) == Return(res)

\* if (hasError) throw error; return result
OnceEnd(hasErr, err, res) == IF hasErr THEN Throw(err) ELSE Return(res)

\* onceFn(a), up to the call of fn, or to the end when fn is not called
OnceFn(a) ==
  /\ Len(log) + Len(stack) < MaxOnceCalls
  /\ IF ~onceCalled
       THEN /\ onceCalled' = TRUE
            /\ stack' = Append(stack, a)
            /\ runs' = Append(runs, a)
            /\ UNCHANGED <<onceResult, hasError, error, log>>
       ELSE /\ log' = Append(log, [args |-> a, ran |-> FALSE,
                                   nested |-> stack # <<>>,
                                   out |-> OnceEnd(hasError, error,
                                                   onceResult)])
            /\ UNCHANGED <<onceCalled, onceResult, hasError, error, stack,
                           runs>>
  /\ UNCHANGED <<values, timing>>

\* fn returns: result = fn(...args), then the end of onceFn
FnReturns ==
  /\ stack # <<>>
  /\ LET a == stack[Len(stack)] IN
       /\ onceResult' = <<a>>
       /\ stack' = SubSeq(stack, 1, Len(stack) - 1)
       /\ log' = Append(log, [args |-> a, ran |-> TRUE,
                              nested |-> Len(stack) > 1,
                              out |-> OnceEnd(hasError, error, <<a>>)])
  /\ UNCHANGED <<values, timing, onceCalled, hasError, error, runs>>

\* fn throws: hasError = true; error = err; throw err
FnThrows ==
  /\ stack # <<>>
  /\ LET a == stack[Len(stack)] IN
       /\ hasError' = TRUE
       /\ error' = <<a>>
       /\ stack' = SubSeq(stack, 1, Len(stack) - 1)
       /\ log' = Append(log, [args |-> a, ran |-> TRUE,
                              nested |-> Len(stack) > 1,
                              out |-> Throw(<<a>>)])
  /\ UNCHANGED <<values, timing, onceCalled, onceResult, runs>>

NextOnce ==
  \/ \E a \in 1..MaxArg : OnceFn(a)
  \/ FnReturns
  \/ FnThrows

SpecOnce == Init /\ [][NextOnce]_vars

(***************************************************************************)
(* Properties of cloneDeep and isEqual                                     *)
(***************************************************************************)
Containers == {"object", "array", "set", "map"}

\* the value x lies on a reference cycle of heap h
OnCycle(h, x) ==
  IsRef(x) /\ x.a \in Closure(h, CellRefs(h[x.a])) /\ CellRefs(h[x.a]) # {}

\* C1: for every value x, cyclic and shared ones included,
\* isEqual(x, cloneDeep(x)) is true.
CloneIsEqual == op = "isEqualClone" => (ret.ok /\ ret.val = TRUE)

WitCloneIsEqual ==
  /\ op = "isEqualClone"
  /\ OnCycle(pre, args[1])
  /\ ret.val = TRUE

\* C2: apart from functions, no cell reachable from cloneDeep(x) is a cell
\* reachable from x, and the call leaves every cell of x as it was.
CloneIndependent ==
  op = "cloneDeep" /\ ret.ok =>
    /\ \A a \in DOMAIN pre : heap[a] = pre[a]
    /\ \A a \in Reach(heap, ret.val) :
         a \in Reach(pre, args[1]) => heap[a].kind = "function"

WitCloneIndependent ==
  /\ op = "cloneDeep"
  /\ ret.ok
  /\ \E a \in Reach(pre, args[1]) : pre[a].kind = "date"
  /\ \E a \in Reach(heap, ret.val) : heap[a].kind = "date"
  /\ Reach(heap, ret.val) \cap Reach(pre, args[1]) = {}

\* what a slot holding v in the original must hold in the clone
CloneOfSlot(h, seen, v, w) ==
  IF ~IsRef(v) \/ h[v.a].kind = "function" THEN w = v
  ELSE IF h[v.a].kind \in Containers THEN w = seen[v.a]
  ELSE /\ IsRef(w) /\ w.a \notin DOMAIN seen /\ w # v
       /\ h[w.a] = h[v.a]

\* the clone d of container c holds, slot by slot, the clones of c's slots
CloneOfCell(h, seen, c, d) ==
  /\ d.kind = c.kind
  /\ CASE c.kind = "object" ->
            /\ DOMAIN d.props = DOMAIN c.props
            /\ \A k \in DOMAIN c.props : CloneOfSlot(h, seen, c.props[k], d.props[k])
       [] c.kind \in {"array", "set"} ->
            /\ Len(d.elems) = Len(c.elems)
            /\ \A i \in 1..Len(c.elems) : CloneOfSlot(h, seen, c.elems[i], d.elems[i])
       [] OTHER ->
            /\ Len(d.entries) = Len(c.entries)
            /\ \A i \in 1..Len(c.entries) :
                 /\ CloneOfSlot(h, seen, c.entries[i][1], d.entries[i][1])
                 /\ CloneOfSlot(h, seen, c.entries[i][2], d.entries[i][2])

\* C3: within one cloneDeep call every container reachable from the input
\* has exactly one clone, a new cell, and every reference to the container is
\* cloned as a reference to that clone, self-references included.
CloneOnce ==
  op = "cloneDeep" =>
    LET C == {a \in Reach(pre, args[1]) : pre[a].kind \in Containers}
        new == {a \in DOMAIN heap : a \notin DOMAIN pre /\ heap[a].kind \in Containers}
    IN /\ ret.ok
       /\ DOMAIN ret.seen = C
       /\ {ret.seen[a].a : a \in C} = new
       /\ Cardinality(new) = Cardinality(C)
       /\ \A a \in C : CloneOfCell(heap, ret.seen, pre[a], heap[ret.seen[a].a])
       /\ \A a \in C : args[1] = Ref(a) => ret.val = ret.seen[a]

WitCloneOnce ==
  /\ op = "cloneDeep"
  /\ ret.ok
  /\ IsRef(args[1])
  /\ args[1].a \in CellRefs(pre[args[1].a])
  /\ ret.val.a \in CellRefs(heap[ret.val.a])
  /\ ret.val.a \notin DOMAIN pre

\* C4: cloneDeep and isEqual return for every input, cyclic ones included:
\* no call nests deeper than the number of cells of its input plus one.
CallsReturn ==
  op \in {"cloneDeep", "isEqual", "isEqualClone"} =>
    (ret.ok /\ ret.top <= Len(pre) + 1)

WitCallsReturn ==
  /\ op = "isEqualClone"
  /\ ret.ok
  /\ OnCycle(pre, args[1])
  /\ Len(pre) >= 2

\* C5: isEqual(a, b) = isEqual(b, a).
EqualSymmetric ==
  op = "isEqual" => ret.val = IsEqual(heap, args[2], args[1]).res

\* C6: isEqual(x, x) is true for every x.
EqualReflexive == op = "isEqual" /\ args[1] = args[2] => ret.val = TRUE

WitEqualReflexive == op = "isEqual" /\ args = <<NaN, NaN>> /\ ret.val = TRUE

\* the category of a value in the value model
Category(h, v) == IF IsRef(v) THEN h[v.a].kind ELSE "primitive"

\* C7: isEqual(a, b) is false whenever a and b are of different categories.
EqualCategoryMismatch ==
  op = "isEqual" /\ Category(heap, args[1]) # Category(heap, args[2]) =>
    ret.val = FALSE

\* C8 as stated: isEqual(+0, -0) is true and NaN equals itself.
EqualZerosSame ==
  op = "isEqual" =>
    /\ args \in {<<PosZero, NegZero>>, <<NegZero, PosZero>>} => ret.val = TRUE
    /\ args = <<NaN, NaN>> => ret.val = TRUE

\* C8 (amended): isEqual tells +0 from -0 (isEqual(+0, -0) and isEqual(-0, +0)
\* are false), while +0, -0 and NaN are each equal to themselves.
EqualZerosDistinct ==
  op = "isEqual" =>
    /\ args \in {<<PosZero, NegZero>>, <<NegZero, PosZero>>} => ret.val = FALSE
    /\ args \in {<<NaN, NaN>>, <<PosZero, PosZero>>, <<NegZero, NegZero>>} =>
         ret.val = TRUE

WitEqualZerosDistinct ==
  op = "isEqual" /\ args = <<PosZero, NegZero>> /\ ret.val = FALSE

(***************************************************************************)
(* Properties of deepMerge                                                 *)
(***************************************************************************)
\* C9: after deepMerge(target, ...sources, options) returns or throws, every
\* cell the caller built (target, each source, everything nested in them)
\* has exactly the keys, elements and values it had before the call.
MergeKeepsInputs ==
  op = "deepMerge" => \A a \in DOMAIN pre : heap[a] = pre[a]

\* a call with two sources that returned and built a nested object or array
WitMergeKeepsInputs ==
  /\ op = "deepMerge"
  /\ ret.err = "none"
  /\ Len(args) = 3
  /\ Len(heap) > Len(pre) + 1
  /\ \E k \in OwnKeys(heap[ret.val.a]) :
       /\ k \in OwnKeys(pre[args[1].a])
       /\ heap[ret.val.a].props[k] # pre[args[1].a].props[k]

\* the sources mergeInternal receives: rest without a trailing options object
SourcesOf(h, rest) ==
  IF Len(rest) > 0 /\ IsOptions(h, rest[Len(rest)])
    THEN SubSeq(rest, 1, Len(rest) - 1)
    ELSE rest

PlainOf(h, q) == SelectSeq(q, LAMBDA v : IsPlainObject(h, v))

\* the values the sources in q define at key k, in call order
DefinedAt(h, q, k) ==
  LET with == SelectSeq(q, LAMBDA v : k \in OwnKeys(h[v.a]))
  IN [i \in 1..Len(with) |-> h[with[i].a].props[k]]

\* depth to which a merged value is compared with the merge the rules define
MergeCheckDepth == 2

\* Conforms: the object at address r is the merge of the properties tprops
\* and the plain sources q.  Folded: starting from the accumulated value
\* (base merged with the plain sources pend, or an array built by the array
\* strategy when arr), the values vals[i..] are applied in order and actual is
\* the outcome.
RECURSIVE Conforms(_, _, _, _, _)
RECURSIVE Folded(_, _, _, _, _, _, _, _)
Folded(h, actual, base, pend, arr, vals, i, fuel) ==
  IF i > Len(vals)
    THEN IF arr THEN IsKind(h, actual, "array")
         ELSE IF pend = <<>> THEN actual = base
         ELSE /\ IsPlainObject(h, actual)
              /\ fuel = 0 \/ Conforms(h, actual.a, h[base.a].props, pend, fuel - 1)
  ELSE
    LET sv == vals[i]
        accArray == arr \/ (pend = <<>> /\ IsKind(h, base, "array"))
        accPlain == ~arr /\ (pend # <<>> \/ IsPlainObject(h, base))
    IN IF accArray /\ IsKind(h, sv, "array")
         THEN Folded(h, actual, base, <<>>, TRUE, vals, i + 1, fuel)
       ELSE IF accPlain /\ IsPlainObject(h, sv)
         THEN Folded(h, actual, base, Append(pend, sv), FALSE, vals, i + 1, fuel)
       ELSE Folded(h, actual, sv, <<>>, FALSE, vals, i + 1, fuel)

Conforms(h, r, tprops, q, fuel) ==
  /\ OwnKeys(h[r]) = DOMAIN tprops \cup UNION {OwnKeys(h[q[j].a]) : j \in DOMAIN q}
  /\ \A k \in OwnKeys(h[r]) :
       Folded(h, h[r].props[k],
              IF k \in DOMAIN tprops THEN tprops[k] ELSE Undefined,
              <<>>, FALSE, DefinedAt(h, q, k), 1, fuel)

\* C10: the result has every key of the target and of every plain source; a
\* key no source defines keeps the target's value; a key whose accumulated
\* and source values are not both plain objects and not both arrays takes
\* the value of the last source defining it; and when both are plain objects
\* the value is their recursive merge under the same rules.
MergeOverrides ==
  (op = "deepMerge" /\ ret.err = "none") =>
    Conforms(heap, ret.val.a, pre[args[1].a].props,
             PlainOf(pre, SourcesOf(pre, SubSeq(args, 2, Len(args)))),
             MergeCheckDepth)

\* the strategy the call of the state runs with
StrategyOf ==
  LET last == pre[args[Len(args)].a]
  IN IF "arrayMergeStrategy" \in OwnKeys(last)
       THEN last.props["arrayMergeStrategy"] ELSE Str("concat")

\* The value key a must hold after the sources q[i..]: acc is the value
\* accumulated so far, 1 or an array given by its elements.
RECURSIVE ExpectedAt(_, _, _, _)
ExpectedAt(acc, q, i, strategy) ==
  IF i > Len(q) THEN acc
  ELSE LET sv == pre[q[i].a].props["a"] IN
       IF ~IsRef(sv) THEN ExpectedAt(sv, q, i + 1, strategy)
       ELSE IF acc = One \/ strategy # Str("concat")
         THEN ExpectedAt(ArrayOf(pre[sv.a].elems), q, i + 1, strategy)
       ELSE ExpectedAt(ArrayOf(acc.elems \o pre[sv.a].elems), q, i + 1, strategy)

\* C11: at a key where the accumulated and the source value are both arrays,
\* 'concat' (the default) yields the accumulated elements followed by the
\* source's, in order and across several sources, and 'replace' yields exactly
\* the source's elements, also when the source array is shorter or empty.
ArrayStrategies ==
  op = "deepMergeArrays" =>
    /\ ret.err = "none"
    /\ LET got == heap[ret.val.a].props["a"]
           want == ExpectedAt(pre[pre[args[1].a].props["a"].a],
                              PlainOf(pre, SourcesOf(pre, SubSeq(args, 2, Len(args)))),
                              1, StrategyOf)
       IN IF want = One THEN got = One
          ELSE IsRef(got) /\ heap[got.a] = want

\* two array sources concatenated after a target array, all with different
\* first elements or lengths
WitArrayStrategies ==
  /\ op = "deepMergeArrays"
  /\ Len(args) = 3
  /\ StrategyOf = Str("concat")
  /\ IsRef(heap[ret.val.a].props["a"])
  /\ heap[heap[ret.val.a].props["a"].a].elems = <<One, Str("1"), Str("1"), One>>

\* number of plain objects nested below the plain object v, along key a
RECURSIVE NestOf(_, _)
NestOf(h, v) ==
  LET w == GetProp(h[v.a], "a")
  IN IF IsPlainObject(h, w) THEN 1 + NestOf(h, w) ELSE 0

\* the maxDepth the call of the state runs with
MaxDepthOf ==
  LET last == pre[args[Len(args)].a]
  IN IF "maxDepth" \in OwnKeys(last) THEN NumVal(last.props["maxDepth"])
     ELSE DefaultMaxDepth

\* the sources of the call of the state
ChainSources == PlainOf(pre, SourcesOf(pre, SubSeq(args, 2, Len(args))))

\* some source and the value it is merged into (the target, or the source
\* before it) are both nested deeper than m
SharedNest(m) ==
  \E i \in DOMAIN ChainSources :
    /\ NestOf(pre, ChainSources[i]) > m
    /\ NestOf(pre, IF i = 1 THEN args[1] ELSE ChainSources[i - 1]) > m

\* C12 as stated: the depth error is raised whenever a source is nested
\* deeper than maxDepth, and the same call succeeds with the default maxDepth.
DepthGuardBySource ==
  op = "deepMergeChains" =>
    /\ (\E i \in DOMAIN ChainSources : NestOf(pre, ChainSources[i]) > MaxDepthOf)
         => ret.err = "depth"
    /\ MergeInternal(pre, {}, args[1], ChainSources, DEFAULT_OPTIONS, 0).err = "none"

\* C12 (amended): the depth error is raised exactly when a source and the
\* value it is merged into (the target, or what earlier sources left at the
\* same keys) are both nested deeper than maxDepth; a source nested deeper
\* than maxDepth is merged without error when the value it is merged into is
\* not; and the same target and sources merge with the default maxDepth.
DepthGuardByMerge ==
  op = "deepMergeChains" =>
    /\ ret.err = (IF SharedNest(MaxDepthOf) THEN "depth" ELSE "none")
    /\ MergeInternal(pre, {}, args[1], ChainSources, DEFAULT_OPTIONS, 0).err = "none"

\* target and source nested two deep merged with maxDepth 1: the error
WitDepthGuardByMerge ==
  /\ op = "deepMergeChains"
  /\ MaxDepthOf = 1
  /\ NestOf(pre, args[1]) = 2
  /\ NestOf(pre, args[2]) = 2
  /\ ret.err = "depth"

\* v is not a plain object: a primitive, an array, or an instance of a class
NotPlain(h, v) ==
  ~IsRef(v) \/ h[v.a].kind # "object" \/ h[v.a].proto \notin {"Object", "null"}

\* the arguments after the target, and those of them that are plain objects
RestOf == SubSeq(args, 2, Len(args))

PlainRest == SelectSeq(RestOf, LAMBDA v : ~NotPlain(pre, v))

\* the call deepMerge(target, ...PlainRest) on the heap before the call
WithoutSkipped == DeepMerge(pre, args[1], PlainRest)

SameOutcome(r) == r.h = heap /\ r.val = ret.val /\ r.err = ret.err

OptionsUncovered ==
  /\ Len(RestOf) > 0
  /\ NotPlain(pre, RestOf[Len(RestOf)])
  /\ Len(PlainRest) > 0
  /\ IsOptions(pre, PlainRest[Len(PlainRest)])

TargetMustBePlain ==
  op = "deepMerge" =>
    /\ ret.err = "type" <=> NotPlain(pre, args[1])
    /\ ret.err = "type" => (ret.val = Undefined /\ heap = pre)

\* deepMerge(d, d) on a Date d
WitTargetMustBePlain ==
  /\ op = "deepMerge"
  /\ Len(args) = 2
  /\ IsKind(pre, args[1], "date")
  /\ ret.err = "type"
  /\ heap = pre

\* the values at key k, in order: the target's, then those of the sources
DefinersAt(k) ==
  LET t == pre[args[1].a]
      q == PlainOf(pre, SourcesOf(pre, RestOf))
  IN (IF k \in OwnKeys(t) THEN <<t.props[k]>> ELSE <<>>) \o DefinedAt(pre, q, k)

\* C15: the object deepMerge returns is a new object, never the target or a
\* source, also with zero sources; and at every key where the accumulated
\* value and the value of the last source defining it are both plain objects
\* the merged value is a new object, for self-referential targets too.
MergedAreNew ==
  (op = "deepMerge" /\ ret.err = "none") =>
    /\ ret.val.a \notin DOMAIN pre
    /\ \A k \in OwnKeys(heap[ret.val.a]) :
         LET D == DefinersAt(k) IN
         (/\ Len(D) > 1
          /\ IsPlainObject(pre, D[Len(D)])
          /\ IsPlainObject(pre, D[Len(D) - 1]))
           => /\ IsRef(heap[ret.val.a].props[k])
              /\ heap[ret.val.a].props[k].a \notin DOMAIN pre

\* the number of sources of the call that hold themselves at key k
SourcesAt(k) ==
  Len(SelectSeq(ChainSources, LAMBDA v : k \in OwnKeys(pre[v.a])))

\* the number of objects the caller passes: target, nested object, sources
PassedObjects ==
  Cardinality({args[1].a} \cup CellRefs(pre[args[1].a])
              \cup {ChainSources[i].a : i \in DOMAIN ChainSources})

\* The depth of the deepest call of mergeInternal.  At key a the target
\* holds itself, so every source at a costs one nested call, which returns the
\* target.  At key b the first source is merged into {} or stored as it is;
\* every later one finds the value left by its predecessors one level deeper.
DeepestCall ==
  LET ka == SourcesAt("a")
      kb == SourcesAt("b")
      atA == IF ka > 0 THEN 1 ELSE 0
      atB == IF "b" \in OwnKeys(pre[args[1].a])
               THEN (IF kb < 2 THEN kb ELSE kb + 1)
               ELSE (IF kb < 2 THEN 0 ELSE kb)
  IN Max(atA, atB)

CycleKeys ==
  OwnKeys(heap[ret.val.a]) =
    OwnKeys(pre[args[1].a])
    \cup UNION {OwnKeys(pre[ChainSources[i].a]) : i \in DOMAIN ChainSources}

ThrottleSpacing ==
  fn = "throttle" =>
    \A i \in DOMAIN invoked : \A j \in DOMAIN invoked :
      i < j => invoked[j].at - invoked[i].at >= wait

\* a leading, a trailing and a second leading invocation, each wait after the
\* one before
WitThrottleSpacing ==
  /\ fn = "throttle"
  /\ wait > 0
  /\ Len(invoked) = 3
  /\ invoked[1].sync /\ ~invoked[2].sync /\ invoked[3].sync
  /\ invoked[3].at = invoked[1].at + 2 * wait

\* the calls after the first one made before millisecond t, and those made at t
CallsBefore(t) == {k \in 2..Len(called) : called[k] < t}
CallsAt(t) == {k \in 2..Len(called) : called[k] = t}

\* the invocations made from a timer up to millisecond t, before a second
\* call starts a period of its own by invoking func
TrailingUpTo(t) ==
  {i \in DOMAIN invoked :
     /\ ~invoked[i].sync
     /\ invoked[i].at <= t
     /\ \A j \in 2..(i - 1) : ~invoked[j].sync}

\* C18: with the default options (leading and trailing) the first call invokes
\* func at once with its own arguments; nothing else is invoked before the
\* wait period ends; if further calls arrived before the end of the period, the
\* timer invokes func exactly once at the end of the period, with the
\* arguments of the latest call made by then; if none arrived, the timer
\* invokes nothing.
ThrottleDefault ==
  (fn = "throttle" /\ leading /\ trailing /\ called # <<>>) =>
    LET end == called[1] + wait
        trail == TrailingUpTo(end)
        over == now >= end /\ \A i \in DOMAIN timers : timers[i].due > end
    IN /\ invoked # <<>>
       /\ invoked[1] = [at |-> called[1], args |-> 1, sync |-> TRUE]
       /\ \A i \in DOMAIN invoked : i > 1 => invoked[i].at >= end
       /\ Cardinality(trail) <= 1
       /\ \A i \in trail :
            /\ invoked[i].at = end
            /\ invoked[i].args \in CallsBefore(end) \cup CallsAt(end)
            /\ \A k \in CallsBefore(end) : invoked[i].args >= k
       /\ (CallsBefore(end) # {} /\ over) => trail # {}
       /\ CallsBefore(end) \cup CallsAt(end) = {} => trail = {}

\* three calls within the period, and the timer's invocation with the
\* arguments of the third
WitThrottleDefault ==
  /\ fn = "throttle" /\ leading /\ trailing
  /\ wait > 1
  /\ Cardinality(CallsBefore(called[1] + wait)) = 2
  /\ called[3] > called[1]
  /\ Len(invoked) = 2
  /\ invoked[2] = [at |-> called[1] + wait, args |-> 3, sync |-> FALSE]

\* the burst that call a belongs to is over: more than wait milliseconds have
\* passed since a without another call
Settled(a) ==
  IF a = Len(called)
    THEN now > called[a] + wait
    ELSE called[a + 1] > called[a] + wait

\* C19: a debounced function with the default options (no leading, trailing,
\* no maxWait) never invokes func inside a call; every invocation comes from a
\* timer, at least wait milliseconds after the most recent call and with the
\* arguments of that call; no call is served twice, and every burst, once
\* over, has been served with the arguments of its last call.
DebounceDefault ==
  (fn = "debounce" /\ ~leading /\ trailing /\ maxWait = <<>>) =>
    /\ \A i \in DOMAIN invoked :
         /\ ~invoked[i].sync
         /\ invoked[i].at >= called[invoked[i].args] + wait
         /\ \A k \in DOMAIN called :
              k > invoked[i].args => called[k] >= invoked[i].at
    /\ \A i \in DOMAIN invoked : \A j \in DOMAIN invoked :
         i < j => invoked[i].args < invoked[j].args
    /\ \A a \in DOMAIN called :
         Settled(a) => \E i \in DOMAIN invoked : invoked[i].args = a

\* a burst of two calls served once with the arguments of the second, then a
\* burst of one call
WitDebounceDefault ==
  /\ fn = "debounce" /\ ~leading /\ trailing /\ maxWait = <<>>
  /\ wait > 1
  /\ Len(invoked) = 2
  /\ called[2] > called[1]
  /\ invoked[1].args = 2
  /\ invoked[2].args = 3

\* call a has not been followed by an invocation of func
Unserved(a) == \A i \in DOMAIN invoked : invoked[i].args < a

\* C20: with maxWait set and trailing enabled, a call is followed by an
\* invocation of func within maxWait milliseconds, and every invocation
\* receives the arguments of the latest call.
DebounceMaxWait ==
  (fn = "debounce" /\ trailing /\ maxWait # <<>>) =>
    /\ \A a \in DOMAIN called :
         Unserved(a) => now <= called[a] + maxWait[1]
    /\ \A i \in DOMAIN invoked : \A k \in DOMAIN called :
         k > invoked[i].args => called[k] >= invoked[i].at

\* three calls less than wait apart, served by the maxWait timer with the
\* arguments of the third while the burst is still going on
WitDebounceMaxWait ==
  /\ fn = "debounce" /\ trailing /\ ~leading /\ maxWait # <<>>
  /\ Len(called) = 3
  /\ called[1] < called[2] /\ called[2] < called[3]
  /\ invoked = <<[at |-> called[1] + maxWait[1], args |-> 3, sync |-> FALSE]>>
  /\ invoked[1].at < called[3] + wait

\* cancel() was called after the latest call of the wrapper
Cancelled == lastCallTime = <<>> /\ called # <<>>

\* C21: after cancel() on a throttled or debounced function pending() is
\* false; as long as the wrapper is not called again no step invokes func; and
\* whatever func is invoked with are the arguments of the latest call, never
\* those of a call made before cancel().
CancelSilences ==
  [][/\ Cancelled' => (timeoutId' = <<>> /\ maxTimeoutId' = <<>>)
     /\ (Cancelled /\ called' = called) => invoked' = invoked
     /\ invoked' # invoked =>
          invoked'[Len(invoked')].args = Len(called')]_vars

\* a debounced call was cancelled, and the wait has passed without an
\* invocation
WitCancelSilences ==
  /\ fn = "debounce" /\ trailing
  /\ Cancelled
  /\ invoked = <<>>
  /\ now > called[Len(called)] + wait

\* a call is pending and its arguments have not been passed to func
Undelivered ==
  lastArgs # <<>> /\ (timeoutId # <<>> \/ maxTimeoutId # <<>>)

\* C22: flush() with a pending, undelivered call invokes func once, inside
\* flush, with the arguments of the latest call and returns its result;
\* flush() with nothing pending invokes nothing and returns the last result,
\* undefined if func never ran; after flush() pending() is false; and no
\* call's arguments are ever passed to func twice.
FlushDelivers ==
  [][/\ (CallThrottleFlush \/ CallDebounceFlush) =>
          /\ Undelivered =>
               /\ invoked' = Append(invoked, [at |-> now, args |-> Len(called),
                                              sync |-> TRUE])
               /\ ret'.val = <<Len(called)>>
          /\ ~Undelivered =>
               /\ invoked' = invoked
               /\ ret'.val = IF invoked = <<>>
                               THEN <<>>
                               ELSE <<invoked[Len(invoked)].args>>
          /\ timeoutId' = <<>> /\ maxTimeoutId' = <<>>
     /\ \A i \in DOMAIN invoked' : \A j \in DOMAIN invoked' :
          i # j => invoked'[i].args # invoked'[j].args]_vars

\* a debounced call was flushed, flush returned its result, and the wait has
\* passed without a second invocation
WitFlushDelivers ==
  /\ fn = "debounce" /\ ~leading /\ trailing /\ maxWait = <<>>
  /\ Len(invoked) = 1
  /\ invoked[1].sync
  /\ ret = [ok |-> TRUE, val |-> <<invoked[1].args>>]
  /\ now > invoked[1].at + wait

RECURSIVE AlignedEqual(_, _, _, _, _)
AlignedEqual(h, x, y, anc, selfFirst) ==
  LET closes == IsRef(x) /\ x.a \in DOMAIN anc
      below == Bind(anc, x.a, y)
      cx == h[x.a]
      cy == h[y.a]
  IN IF ~selfFirst /\ closes THEN anc[x.a] = y
     ELSE IF ObjectIs(x, y) THEN TRUE
     ELSE IF ~IsRef(x) \/ ~IsRef(y) THEN FALSE
     ELSE IF cx.kind = "function" \/ cy.kind = "function" THEN FALSE
     ELSE IF closes THEN anc[x.a] = y
     ELSE IF cx.kind = "date" /\ cy.kind = "date"
       THEN ObjectIs(cx.time, cy.time)
     ELSE IF cx.kind = "regexp" /\ cy.kind = "regexp"
       THEN cx.source = cy.source /\ cx.flags = cy.flags
     ELSE IF cx.kind = "set" /\ cy.kind = "set"
       THEN /\ Len(cx.elems) = Len(cy.elems)
            /\ \A i \in DOMAIN cx.elems : \E j \in DOMAIN cy.elems :
                 AlignedEqual(h, cx.elems[i], cy.elems[j], below, selfFirst)
     ELSE IF cx.kind = "map" /\ cy.kind = "map"
       THEN /\ Len(cx.entries) = Len(cy.entries)
            /\ \A i \in DOMAIN cx.entries : \E j \in DOMAIN cy.entries :
                 /\ AlignedEqual(h, cx.entries[i][1], cy.entries[j][1], below,
                                 selfFirst)
                 /\ AlignedEqual(h, cx.entries[i][2], cy.entries[j][2], below,
                                 selfFirst)
     ELSE IF cx.kind = "array" /\ cy.kind = "array"
       THEN /\ Len(cx.elems) = Len(cy.elems)
            /\ \A i \in DOMAIN cx.elems :
                 AlignedEqual(h, cx.elems[i], cy.elems[i], below, selfFirst)
     ELSE IF cx.kind = "array" \/ cy.kind = "array" THEN FALSE
     ELSE /\ OwnKeys(cx) = OwnKeys(cy)
          /\ \A k \in OwnKeys(cx) :
               AlignedEqual(h, cx.props[k], cy.props[k], below, selfFirst)

Members(h, x) == IF h[x.a].kind = "set" THEN h[x.a].elems ELSE h[x.a].entries

(***************************************************************************)
(* The caller of isEqual on collections: two Sets, or two Maps, filled     *)
(* from literals (primitives and fresh { a: 1 }, { b: 1 } objects) or with *)
(* an object that is already held, then one call.                          *)
(***************************************************************************)
\* the members a collection literal lists
MaxMembers == 2

\* new Set([...]) / new Map([...]) members: a primitive, or a fresh object
ElementLiterals ==
  {One, NaN, PutProp(NewObject, "a", One), PutProp(NewObject, "b", One)}
KeyLiterals == {One, PutProp(NewObject, "a", One)}
ValueLiterals == {NaN, PutProp(NewObject, "a", One)}

\* a literal is a value, or the cell of a fresh object
IsCell(l) == "kind" \in DOMAIN l

\* the heap, and the value, after evaluating literal l
HeapWith(h, l) == IF IsCell(l) THEN Append(h, l) ELSE h
ValueOf(h, l) == IF IsCell(l) THEN Ref(Len(h) + 1) ELSE l

\* const x = new Set() / new Map(), of the kind of the first collection
NewCollection(c) ==
  /\ op = "idle"
  /\ Len(args) < 2
  /\ args # <<>> => heap[args[1].a].kind = c.kind
  /\ args # <<>> => Members(heap, args[1]) # <<>>
  /\ heap' = Append(heap, c)
  /\ args' = Append(args, Ref(Len(heap) + 1))
  /\ UNCHANGED <<pre, op, ret>>
  /\ UNCHANGED <<timing, memo>>

\* the collection the caller is filling
Filling == args[Len(args)]

\* x.add(l), x.add(o) with an object o that exists
AddMember(l) ==
  /\ op = "idle"
  /\ args # <<>>
  /\ IsKind(heap, Filling, "set")
  /\ Len(heap[Filling.a].elems) < MaxMembers
  /\ LET h == HeapWith(heap, l)
         v == ValueOf(heap, l)
     IN /\ SetAdd(h[Filling.a], v) # h[Filling.a]
        /\ heap' = [h EXCEPT ![Filling.a] = SetAdd(@, v)]
  /\ UNCHANGED <<pre, op, args, ret>>
  /\ UNCHANGED <<timing, memo>>

\* x.set(k, l)
PutMember(k, l) ==
  /\ op = "idle"
  /\ args # <<>>
  /\ IsKind(heap, Filling, "map")
  /\ Len(heap[Filling.a].entries) < MaxMembers
  /\ LET hk == HeapWith(heap, k)
         kv == ValueOf(heap, k)
         h == HeapWith(hk, l)
         v == ValueOf(hk, l)
     IN /\ Len(MapSet(h[Filling.a], kv, v).entries) > Len(h[Filling.a].entries)
        /\ heap' = [h EXCEPT ![Filling.a] = MapSet(@, kv, v)]
  /\ UNCHANGED <<pre, op, args, ret>>
  /\ UNCHANGED <<timing, memo>>

\* isEqual(x, y)
CallIsEqualCollections ==
  /\ op = "idle"
  /\ Len(args) = 2
  /\ LET r == IsEqual(heap, args[1], args[2]) IN
       ret' = [ok |-> r.ok, val |-> r.res, top |-> r.top, seen |-> r.seen]
  /\ pre' = heap
  /\ op' = "isEqual"
  /\ UNCHANGED <<heap, args>>
  /\ UNCHANGED <<timing, memo>>

NextSets ==
  \/ \E c \in {NewSet, NewMap} : NewCollection(c)
  \/ \E l \in ElementLiterals \cup {Ref(a) : a \in OfKind(heap, "object")} :
       AddMember(l)
  \/ \E k \in KeyLiterals, l \in ValueLiterals : PutMember(k, l)
  \/ CallIsEqualCollections

SpecSets == Init /\ [][NextSets]_vars

(***************************************************************************)
(* Sets and Maps compare as unordered collections                          *)
(***************************************************************************)
\* the orders in which n elements can have been inserted
Orders(n) == {p \in [1..n -> 1..n] : \A i, j \in 1..n : p[i] = p[j] => i = j}

\* heap h with the members of collection x inserted in order p
Reinserted(h, x, p) ==
  LET m == [i \in 1..Len(Members(h, x)) |-> Members(h, x)[p[i]]] IN
  [h EXCEPT ![x.a] = IF @.kind = "set" THEN [@ EXCEPT !.elems = m]
                                        ELSE [@ EXCEPT !.entries = m]]

\* member m of the first collection has an equal member n in the second
MemberEqual(h, kind, m, n) ==
  IF kind = "set"
    THEN IsEqual(h, m, n).res
    ELSE IsEqual(h, m[1], n[1]).res /\ IsEqual(h, m[2], n[2]).res

\* the call compares two distinct collections of the same kind
ComparesCollections(kind) ==
  /\ op = "isEqual"
  /\ IsKind(pre, args[1], kind) /\ IsKind(pre, args[2], kind)
  /\ args[1] # args[2]

\* C25: two distinct Sets are equal iff they have the same size and every
\* element of the first has an equal element in the second; two distinct
\* Maps are equal iff they have the same size and every entry of the first
\* has an entry in the second with an equal key and an equal value; and the
\* result is the same for every insertion order of either collection.
UnorderedEqual ==
  \A kind \in {"set", "map"} :
    ComparesCollections(kind) =>
      LET ma == Members(pre, args[1])
          mb == Members(pre, args[2])
      IN /\ ret.ok
         /\ ret.val = (/\ Len(ma) = Len(mb)
                       /\ \A i \in 1..Len(ma) : \E j \in 1..Len(mb) :
                            MemberEqual(pre, kind, ma[i], mb[j]))
         /\ \A p \in Orders(Len(ma)), q \in Orders(Len(mb)) :
              IsEqual(Reinserted(Reinserted(pre, args[1], p), args[2], q),
                      args[1], args[2]).res = ret.val

\* two Sets of two elements each, inserted in opposite orders, are equal
WitUnorderedEqual ==
  /\ ComparesCollections("set")
  /\ Len(pre[args[1].a].elems) = 2
  /\ Len(pre[args[2].a].elems) = 2
  /\ pre[args[1].a].elems[1] = pre[args[2].a].elems[2]
  /\ pre[args[1].a].elems[2] = pre[args[2].a].elems[1]
  /\ ret.val = TRUE

(***************************************************************************)
(* Values that are not objects compare by identity                         *)
(***************************************************************************)
\* v is a number, a string, null, undefined or a function
NotAnObject(h, v) == ~IsRef(v) \/ h[v.a].kind = "function"

\* the call has an argument that is not an object
ComparesNonObject ==
  /\ op = "isEqual"
  /\ NotAnObject(pre, args[1]) \/ NotAnObject(pre, args[2])

\* C26: when one of a and b is not an object, isEqual(a, b) is true exactly
\* when a and b are the same value: NaN equals NaN, null equals only null,
\* undefined equals only undefined, distinct primitives are never equal and
\* two distinct functions are never equal.
NonObjectsByIdentity ==
  ComparesNonObject =>
    /\ ret.ok
    /\ ret.val = (args[1] = args[2])
    /\ args = <<NaN, NaN>> => ret.val
    /\ Null \in {args[1], args[2]} => ret.val = (args = <<Null, Null>>)
    /\ Undefined \in {args[1], args[2]} =>
         ret.val = (args = <<Undefined, Undefined>>)
    /\ (~IsRef(args[1]) /\ ~IsRef(args[2]) /\ args[1] # args[2]) => ~ret.val
    /\ (IsKind(pre, args[1], "function") /\ IsKind(pre, args[2], "function")
        /\ args[1] # args[2]) => ~ret.val

\* two distinct functions have been compared, and found different
WitNonObjectsByIdentity ==
  /\ ComparesNonObject
  /\ IsKind(pre, args[1], "function") /\ IsKind(pre, args[2], "function")
  /\ args[1] # args[2]
  /\ ret.val = FALSE

(***************************************************************************)
(* The depth counter of the merge                                          *)
(***************************************************************************)
\* The longest chain of plain objects nested jointly, along key a, in the
\* accumulated value and the source merged into it, over the sources q[i..];
\* n is the nesting of the value accumulated so far, and a source leaves its
\* own nesting behind.
RECURSIVE JointNest(_, _, _)
JointNest(n, q, i) ==
  IF i > Len(q) THEN 0
  ELSE Max(Min(n, NestOf(pre, q[i])), JointNest(NestOf(pre, q[i]), q, i + 1))

\* C27: the depth counter is 0 at the top-level call and grows by one only
\* where the accumulated value and the source value at a key are both plain
\* objects: with d the longest chain of jointly nested plain objects, the
\* merge succeeds when d <= maxDepth and raises the depth error when
\* d > maxDepth; nesting on one side only does not count.
DepthCounter ==
  op = "deepMergeChains" =>
    LET d == JointNest(NestOf(pre, args[1]), ChainSources, 1) IN
    /\ d <= MaxDepthOf => ret.err = "none"
    /\ d > MaxDepthOf => ret.err = "depth"
    /\ (\A i \in DOMAIN ChainSources : NestOf(pre, ChainSources[i]) = 0)
         => ret.err = "none"
    /\ NestOf(pre, args[1]) = 0 /\ Len(ChainSources) = 1 => ret.err = "none"

\* a target nested one deep and a source nested two deep merge with
\* maxDepth 1: the counter reaches 1, the second level of the source is
\* one-sided
WitDepthCounter ==
  /\ op = "deepMergeChains"
  /\ MaxDepthOf = 1
  /\ Len(ChainSources) = 1
  /\ NestOf(pre, args[1]) = 1
  /\ NestOf(pre, ChainSources[1]) = 2
  /\ ret.err = "none"

(***************************************************************************)
(* Outstanding timers and the ids the wrapper records                      *)
(***************************************************************************)
\* the outstanding timers that run handler r
Outstanding(r) == {i \in DOMAIN timers : timers[i].run = r}

\* pending() of the wrapper of the state
Pending ==
  IF fn = "throttle" THEN ThrottlePending(This) ELSE DebouncePending(This)

\* C28 as stated: every timer that was scheduled and has neither fired nor
\* been cleared is the one recorded in timeoutId or maxTimeoutId; at most one
\* wait timer and one maxWait timer are outstanding; and pending() is false
\* only when no timer is outstanding.
TimersRecorded ==
  fn # "none" =>
    /\ \A i \in DOMAIN timers :
         <<timers[i].id>> = (IF timers[i].run = "timerExpired"
                               THEN timeoutId ELSE maxTimeoutId)
    /\ Cardinality(Outstanding("timerExpired")) <= 1
    /\ Cardinality(Outstanding("maxTimerExpired")) <= 1
    /\ ~Pending => timers = <<>>

(***************************************************************************)
(* Timer-driven invocations of a debounced function with maxWait           *)
(***************************************************************************)
\* the first call that no invocation before the i-th has followed
FirstUnserved(i) == IF i = 1 THEN 1 ELSE invoked[i - 1].args + 1

\* C29 as stated: with maxWait set, every invocation made by a timer happens
\* when at least wait ms have passed since the most recent call or at least
\* maxWait ms since the first call not yet followed by an invocation; so the
\* maxWait timer of an earlier burst causes no invocation for a later burst.
TimerInvocationsTimely ==
  (fn = "debounce" /\ maxWait # <<>>) =>
    \A i \in DOMAIN invoked :
      ~invoked[i].sync =>
        \/ invoked[i].at - called[invoked[i].args] >= wait
        \/ invoked[i].at - called[FirstUnserved(i)] >= maxWait[1]

(***************************************************************************)
(* The options argument of deepMerge                                       *)
(***************************************************************************)
\* v is an object with a property named arrayMergeStrategy or maxDepth
HasOptionKey(h, v) ==
  /\ IsRef(v)
  /\ h[v.a].kind # "function"
  /\ {"arrayMergeStrategy", "maxDepth"} \cap OwnKeys(h[v.a]) # {}

\* the last argument of the call of the state is such an object
LastIsOptions == RestOf # <<>> /\ HasOptionKey(pre, RestOf[Len(RestOf)])

\* the arguments the claim reads as sources, and the options it reads
SourcesRead ==
  IF LastIsOptions THEN SubSeq(RestOf, 1, Len(RestOf) - 1) ELSE RestOf

OptionsRead ==
  LET given == IF LastIsOptions THEN pre[RestOf[Len(RestOf)].a].props ELSE <<>>
  IN [arrayMergeStrategy |->
        IF "arrayMergeStrategy" \in DOMAIN given
          THEN given["arrayMergeStrategy"] ELSE Str("concat"),
      maxDepth |->
        IF "maxDepth" \in DOMAIN given THEN given["maxDepth"] ELSE Num("50")]

\* the keys of the target and of the plain objects among the sources read
KeysRead ==
  OwnKeys(pre[args[1].a]) \cup
  UNION {OwnKeys(pre[SourcesRead[i].a]) :
           i \in {j \in DOMAIN SourcesRead : ~NotPlain(pre, SourcesRead[j])}}

====
